---- MODULE Spec2Model ----
(***************************************************************************)
(* The stalkercfg language core of the STALKER 2 CFG extension: tokenizer, *)
(* stack-based AST builder, validator and formatter, driven by the         *)
(* extension's diagnostics and formatting providers.                       *)
(*                                                                         *)
(* A line of text is a sequence of one-character strings.  Line numbers    *)
(* are 1-based (document[i] is the code's lineAt(i-1)); columns are the    *)
(* code's 0-based offsets, so the character at column j is text[j + 1].    *)
(***************************************************************************)
EXTENDS Integers, Sequences, FiniteSets, TLC

VARIABLES document, tabWidth, indentLevel, diagnostics, astBuilder_diagnostics,
          edits, before, passes, pc

\* the extension host: the open documents by path, the diagnostic collection,
\* the handle activate keeps, the timers of the event loop, the time in ms,
\* and what the debounce properties look back at: the number of change
\* events, the last change event, the timer runs since it and the documents
\* changed since their own last validation
VARIABLES contents, published, diagnosticTimeout, timers, clock,
          events, lastEvent, runs, dirty

host == <<contents, published, diagnosticTimeout, timers, clock, events, lastEvent, runs, dirty>>

vars == <<document, tabWidth, indentLevel, diagnostics, astBuilder_diagnostics,
          edits, before, passes, pc, host>>

(***************************************************************************)
(* Characters and the JavaScript string helpers the code relies on.        *)
(***************************************************************************)
Digits == {"0", "1", "2", "3", "4", "5", "6", "7", "8", "9"}

Letters ==
  {"a", "b", "c", "d", "e", "f", "g", "h", "i", "j", "k", "l", "m",
   "n", "o", "p", "q", "r", "s", "t", "u", "v", "w", "x", "y", "z",
   "A", "B", "C", "D", "E", "F", "G", "H", "I", "J", "K", "L", "M",
   "N", "O", "P", "Q", "R", "S", "T", "U", "V", "W", "X", "Y", "Z"}

\* \w of the regular expressions
WordChars == Letters \cup Digits \cup {"_"}

\* the whitespace a line can hold (\s restricted to one line)
Blanks == {" ", "\t"}

IsWs(c) == c \in Blanks

\* [A-Za-z_] and [A-Za-z0-9_\-] of the identifier expression
IdentStart == Letters \cup {"_"}

IdentChars == WordChars \cup {"-"}

\* text[j] of the code, "" past the end (JavaScript yields undefined there)
CharAt(text, j) == IF j >= 0 /\ j < Len(text) THEN text[j + 1] ELSE ""

\* text.slice(from, to)
Slice(text, from, to) == SubSeq(text, from + 1, to)

RECURSIVE LeadWsFrom(_, _)
LeadWsFrom(text, k) ==
  IF k <= Len(text) /\ IsWs(text[k]) THEN 1 + LeadWsFrom(text, k + 1) ELSE 0

\* number of leading whitespace characters
LeadWs(text) == LeadWsFrom(text, 1)

RECURSIVE TrailWsFrom(_, _)
TrailWsFrom(text, k) ==
  IF k >= 1 /\ IsWs(text[k]) THEN 1 + TrailWsFrom(text, k - 1) ELSE 0

\* number of trailing whitespace characters
TrailWs(text) == TrailWsFrom(text, Len(text))

\* text.trim()
Trim(text) ==
  LET l == LeadWs(text)
  IN  IF l = Len(text) THEN << >> ELSE SubSeq(text, l + 1, Len(text) - TrailWs(text))

\* text.trimStart()
TrimStart(text) == SubSeq(text, LeadWs(text) + 1, Len(text))

\* text.includes(c) for a one-character c
Includes(text, c) == \E k \in 1..Len(text) : text[k] = c

\* text.indexOf(c) for a one-character c: 0-based, -1 when absent
IndexOf(text, c) ==
  IF Includes(text, c)
  THEN (CHOOSE k \in 1..Len(text) : text[k] = c /\ \A m \in 1..(k - 1) : text[m] # c) - 1
  ELSE -1

\* text starts with the literal lit at column j
StartsWithAt(text, j, lit) ==
  /\ j + Len(lit) <= Len(text)
  /\ \A k \in 1..Len(lit) : text[j + k] = lit[k]

\* lineText.indexOf("//")
CommentIndex(text) ==
  IF \E j \in 0..(Len(text) - 2) : StartsWithAt(text, j, <<"/", "/">>)
  THEN CHOOSE j \in 0..(Len(text) - 2) :
         /\ StartsWithAt(text, j, <<"/", "/">>)
         /\ \A m \in 0..(j - 1) : ~StartsWithAt(text, m, <<"/", "/">>)
  ELSE -1

\* " ".repeat(n)
Spaces(n) == [k \in 1..n |-> " "]

RECURSIVE IndentFrom(_, _, _)
IndentFrom(text, k, tw) ==
  IF k > Len(text) THEN 0
  ELSE IF text[k] = " " THEN 1 + IndentFrom(text, k + 1, tw)
  ELSE IF text[k] = "\t" THEN tw + IndentFrom(text, k + 1, tw)
  ELSE 0

\* ast.ts countIndentFromText: columns of the leading whitespace, a tab
\* counting as tw columns
countIndentFromText(text, tw) == IndentFrom(text, 1, tw)

\* TextLine.firstNonWhitespaceCharacterIndex of the editor
firstNonWhitespaceCharacterIndex(text) == LeadWs(text)

(***************************************************************************)
(* tokenizer.ts                                                            *)
(***************************************************************************)
Token(type, text, line, start, end) ==
  [type |-> type, text |-> text, line |-> line, start |-> start, end |-> end]

\* single-character punctuation, first match of the scanner
PunctType(ch) ==
  CASE ch = "{" -> "LBRACE"
    [] ch = "}" -> "RBRACE"
    [] ch = ":" -> "COLON"
    [] ch = "=" -> "EQUAL"
    [] ch = "." -> "DOT"
    [] ch = "[" -> "LBRACKET"
    [] ch = "]" -> "RBRACKET"
    [] OTHER -> "NONE"

RECURSIVE scanString_toLineEnd(_, _, _, _)
\* a slip in the literal scan: it runs to the end of the line, not to the
\* comment start
scanString_toLineEnd(lineText, endIdx, processUpTo, q) ==
  IF endIdx >= Len(lineText) THEN endIdx
  ELSE IF CharAt(lineText, endIdx) = q
       THEN IF endIdx + 1 < Len(lineText) /\ CharAt(lineText, endIdx + 1) = q
            THEN scanString_toLineEnd(lineText, endIdx + 2, processUpTo, q)
            ELSE endIdx + 1
       ELSE scanString_toLineEnd(lineText, endIdx + 1, processUpTo, q)

RECURSIVE scanString(_, _, _, _)
\* the inner while loop of a quoted literal: the column after the literal
scanString(lineText, endIdx, processUpTo, q) ==
  IF endIdx >= processUpTo THEN endIdx
  ELSE IF CharAt(lineText, endIdx) = q
       THEN IF endIdx + 1 < processUpTo /\ CharAt(lineText, endIdx + 1) = q
            THEN scanString(lineText, endIdx + 2, processUpTo, q)
            ELSE endIdx + 1
       ELSE scanString(lineText, endIdx + 1, processUpTo, q)

RECURSIVE RunLen(_, _, _)
\* length of the longest run of characters of set cs starting at column j
RunLen(text, j, cs) ==
  IF j < Len(text) /\ CharAt(text, j) \in cs THEN 1 + RunLen(text, j + 1, cs) ELSE 0

\* numMatch: /^(-?(?:[0-9]+\.[0-9]*|\.[0-9]+)(?:f)?)|(^-?[0-9]+)/ on
\* lineText.slice(j): the matched length (0: no match) and the token type
numMatch(lineText, j) ==
  LET neg  == IF CharAt(lineText, j) = "-" THEN 1 ELSE 0
      p    == j + neg
      d1   == RunLen(lineText, p, Digits)
      d2   == RunLen(lineText, p + d1 + 1, Digits)
      frac == IF d1 >= 1 /\ CharAt(lineText, p + d1) = "." THEN d1 + 1 + d2
              ELSE IF d1 = 0 /\ CharAt(lineText, p) = "." /\ d2 >= 1 THEN 1 + d2
              ELSE 0
      f    == IF CharAt(lineText, p + frac) = "f" THEN 1 ELSE 0
  IN  IF frac > 0 THEN [len |-> neg + frac + f, type |-> "FLOAT"]
      ELSE IF d1 >= 1 THEN [len |-> neg + d1, type |-> "INTEGER"]
      ELSE [len |-> 0, type |-> "NONE"]

\* identMatch: /^[A-Za-z_][A-Za-z0-9_\-]*/ on lineText.slice(j)
identMatch(lineText, j) ==
  IF CharAt(lineText, j) \in IdentStart
  THEN 1 + RunLen(lineText, j + 1, IdentChars)
  ELSE 0

RECURSIVE scanTokens(_, _, _, _, _)
\* the while (j < processUpTo) loop over one line
scanTokens(lineText, i, j, processUpTo, lineTokens) ==
  IF j >= processUpTo THEN lineTokens
  ELSE
    LET ch == CharAt(lineText, j) IN
    IF IsWs(ch) THEN scanTokens(lineText, i, j + 1, processUpTo, lineTokens)
    ELSE IF PunctType(ch) # "NONE"
    THEN scanTokens(lineText, i, j + 1, processUpTo,
                    Append(lineTokens, Token(PunctType(ch), <<ch>>, i, j, j + 1)))
    ELSE IF ch = "'" \/ ch = "\""
    THEN LET endIdx == scanString(lineText, j + 1, processUpTo, ch)
             type   == IF ch = "'" THEN "STRING" ELSE "DOUBLE_STRING"
         IN  scanTokens(lineText, i, endIdx, processUpTo,
                        Append(lineTokens, Token(type, Slice(lineText, j, endIdx), i, j, endIdx)))
    ELSE IF numMatch(lineText, j).len > 0
    THEN LET n == numMatch(lineText, j)
         IN  scanTokens(lineText, i, j + n.len, processUpTo,
                        Append(lineTokens,
                               Token(n.type, Slice(lineText, j, j + n.len), i, j, j + n.len)))
    ELSE IF identMatch(lineText, j) > 0
    THEN LET n == identMatch(lineText, j)
         IN  scanTokens(lineText, i, j + n, processUpTo,
                        Append(lineTokens, Token("IDENT", Slice(lineText, j, j + n), i, j, j + n)))
    ELSE scanTokens(lineText, i, j + 1, processUpTo,
                    Append(lineTokens, Token("OTHER", <<ch>>, i, j, j + 1)))

\* the body of the for loop of tokenize: the tokens of line i
tokenizeLine(lineText, i) ==
  LET commentIdx  == CommentIndex(lineText)
      processUpTo == IF commentIdx >= 0 THEN commentIdx ELSE Len(lineText)
      lineTokens  == scanTokens(lineText, i, 0, processUpTo, << >>)
  IN  IF commentIdx >= 0
      THEN Append(lineTokens,
                  Token("COMMENT", Slice(lineText, commentIdx, Len(lineText)), i,
                        commentIdx, Len(lineText)))
      ELSE lineTokens

\* tokenize(document): one token list per line
tokenize(doc) == [i \in 1..Len(doc) |-> tokenizeLine(doc[i], i)]

(***************************************************************************)
(* parser.ts: the stack-based AST builder                                  *)
(*                                                                         *)
(* The tree is kept flat: nodes in creation order, each with the index of  *)
(* its parent node (0: the Document root).  The children array of a node   *)
(* is the subsequence of the nodes that name it as parent, in the order    *)
(* the builder pushed them.  endLine = 0 stands for an unset endLine.      *)
(***************************************************************************)
StructBegin == <<"s", "t", "r", "u", "c", "t", ".", "b", "e", "g", "i", "n">>

StructEnd == <<"s", "t", "r", "u", "c", "t", ".", "e", "n", "d">>

\* the tail \s*struct\.begin\b of headerRegex right after a ':' at column c
HeaderTailAt(text, c) ==
  LET s == c + 1 + RunLen(text, c + 1, Blanks)
  IN  /\ CharAt(text, c) = ":"
      /\ StartsWithAt(text, s, StructBegin)
      /\ CharAt(text, s + Len(StructBegin)) \notin WordChars

\* column after 'struct.begin' for the ':' at column c
HeaderTailEnd(text, c) == c + 1 + RunLen(text, c + 1, Blanks) + Len(StructBegin)

\* headerRegex = /^(\s*)(.+?)\s*:\s*struct\.begin\b(?:\s*(\{[^}]*\}))?/
\* The colons the expression can match with a first group of w characters:
\* the lazy (.+?) needs one character or more before the colon.
HeaderColons(text, w) == {c \in (w + 1)..(Len(text) - 1) : HeaderTailAt(text, c)}

\* headerRegex.test(text): an empty first group admits every colon a longer
\* one admits
headerRegexTest(text) == HeaderColons(text, 0) # {}

\* text.match(headerRegex): the groups of the match.  The greedy (\s*) keeps
\* the longest whitespace prefix that still lets the rest match; the lazy
\* (.+?) then stops at the first colon that works.
headerRegexMatch(text) ==
  LET w   == CHOOSE n \in 0..LeadWs(text) :
               /\ HeaderColons(text, n) # {}
               /\ \A m \in (n + 1)..LeadWs(text) : HeaderColons(text, m) = {}
      c   == CHOOSE k \in HeaderColons(text, w) : \A m \in HeaderColons(text, w) : k <= m
      e   == HeaderTailEnd(text, c)
      b   == e + RunLen(text, e, Blanks)
      cl  == IF CharAt(text, b) = "{" /\ \E k \in (b + 1)..(Len(text) - 1) : CharAt(text, k) = "}"
             THEN CHOOSE k \in (b + 1)..(Len(text) - 1) :
                    /\ CharAt(text, k) = "}"
                    /\ \A m \in (b + 1)..(k - 1) : CharAt(text, m) # "}"
             ELSE -1
  IN  [m1 |-> Slice(text, 0, w),
       m2 |-> Slice(text, w, c),
       m3 |-> IF cl >= 0 THEN Slice(text, b, cl + 1) ELSE << >>]

\* /^struct\.end$/.test(text.trim())
IsStructEnd(text) == Trim(text) = StructEnd

\* text.trim().length === 0 || text.trim().startsWith("//")
IsSkippedLine(text) ==
  LET trimmed == Trim(text)
  IN  trimmed = << >> \/ StartsWithAt(trimmed, 0, <<"/", "/">>)

RECURSIVE SplitAt(_, _, _)
\* s.split(sep) for a one-character separator, scanning from position k
SplitAt(s, k, sep) ==
  IF \E m \in k..Len(s) : s[m] = sep
  THEN LET m == CHOOSE n \in k..Len(s) : s[n] = sep /\ \A r \in k..(n - 1) : s[r] # sep
       IN  <<SubSeq(s, k, m - 1)>> \o SplitAt(s, m + 1, sep)
  ELSE <<SubSeq(s, k, Len(s))>>

\* paramsRaw.replace(/^\{\s*/, "").replace(/\s*\}$/, "")
ParamsInner(paramsRaw) ==
  LET a == IF CharAt(paramsRaw, 0) = "{"
           THEN SubSeq(paramsRaw, 2 + RunLen(paramsRaw, 1, Blanks), Len(paramsRaw))
           ELSE paramsRaw
  IN  IF Len(a) > 0 /\ a[Len(a)] = "}"
      THEN LET cut == SubSeq(a, 1, Len(a) - 1)
           IN  SubSeq(cut, 1, Len(cut) - TrailWs(cut))
      ELSE a

\* inner.split(",").map((p) => p.trim()).filter(Boolean)
ParamParts(paramsRaw) ==
  SelectSeq([k \in 1..Len(SplitAt(ParamsInner(paramsRaw), 1, ",")) |->
               Trim(SplitAt(ParamsInner(paramsRaw), 1, ",")[k])],
            LAMBDA part : part # << >>)

\* key and value of one segment: a bare key (no '=' past column 0) is "true"
ParamKey(part) ==
  IF IndexOf(part, "=") <= 0 THEN part ELSE Trim(Slice(part, 0, IndexOf(part, "=")))

ParamValue(part) ==
  IF IndexOf(part, "=") <= 0 THEN <<"t", "r", "u", "e">>
  ELSE Trim(Slice(part, IndexOf(part, "=") + 1, Len(part)))

\* the params object built from paramsRaw: defined only when a segment is
\* left; a later segment overwrites an earlier one with the same key
parseParams(paramsRaw) ==
  LET parts == ParamParts(paramsRaw)
      keys  == {ParamKey(parts[k]) : k \in 1..Len(parts)}
      last(key) == CHOOSE k \in 1..Len(parts) :
                     /\ ParamKey(parts[k]) = key
                     /\ \A m \in (k + 1)..Len(parts) : ParamKey(parts[m]) # key
  IN  IF paramsRaw = << >> \/ Len(parts) = 0
      THEN [defined |-> FALSE, map |-> << >>]
      ELSE [defined |-> TRUE, map |-> [key \in keys |-> ParamValue(parts[last(key)])]]

\* one AST node; the fields a node type does not have are left empty
Node(type, startLine, indent, parent) ==
  [type |-> type, startLine |-> startLine, endLine |-> 0, indent |-> indent,
   requiredContentIndent |-> 0, parent |-> parent,
   name |-> << >>, key |-> << >>, value |-> << >>, text |-> << >>,
   paramsRaw |-> << >>, params |-> [defined |-> FALSE, map |-> << >>]]

RECURSIVE JoinTexts(_, _)
\* tokens.slice(0, n).map((t) => t.text).join("")
JoinTexts(tokens, n) ==
  IF n = 0 THEN << >> ELSE JoinTexts(tokens, n - 1) \o tokens[n].text

\* tokens.findIndex((t) => t.type === "EQUAL"): 0-based, -1 when absent
EqualIndex(tokens) ==
  IF \E k \in 1..Len(tokens) : tokens[k].type = "EQUAL"
  THEN (CHOOSE k \in 1..Len(tokens) :
          /\ tokens[k].type = "EQUAL"
          /\ \A m \in 1..(k - 1) : tokens[m].type # "EQUAL") - 1
  ELSE -1

\* the node a header line opens
HeaderBlock(text, i, tw, step, parent) ==
  LET m == headerRegexMatch(text)
      indent == countIndentFromText(m.m1, tw)
  IN  [Node("Block", i, indent, parent) EXCEPT
         !.name = Trim(m.m2),
         !.paramsRaw = m.m3,
         !.params = parseParams(m.m3),
         !.requiredContentIndent = indent + step]

\* the node of a line that is neither skipped, a header nor a struct.end
ContentNode(text, i, tokens, tw, parent) ==
  LET eqIdx == EqualIndex(tokens)
      indent == countIndentFromText(text, tw)
  IN  IF Includes(text, "=") /\ eqIdx > 0
      THEN [Node("Property", i, indent, parent) EXCEPT
              !.key = Trim(JoinTexts(tokens, eqIdx)),
              !.value = Trim(Slice(text, tokens[eqIdx + 1].end, Len(text)))]
      ELSE IF Includes(text, ":")
      THEN [Node("MalformedHeader", i, indent, parent) EXCEPT !.text = Trim(text)]
      ELSE [Node("Invalid", i, indent, parent) EXCEPT !.text = Trim(text)]

\* a slip in the index: the first block of the stack, not the last
StackTop_bottom(blockStack) == IF Len(blockStack) > 0 THEN blockStack[1] ELSE 0

\* blockStack[blockStack.length - 1], 0 (the Document root) on an empty stack
StackTop(blockStack) == IF Len(blockStack) > 0 THEN blockStack[Len(blockStack)] ELSE 0

\* a slip in the pairing: the close is given to the outermost open block
closeBlock_outermost(nodes, blockStack, i) == [nodes EXCEPT ![blockStack[1]].endLine = i]

\* closedBlock = blockStack.pop(); closedBlock.endLine = i
closeBlock(nodes, blockStack, i) == [nodes EXCEPT ![StackTop(blockStack)].endLine = i]

RECURSIVE buildFrom(_, _, _, _, _, _)
\* the for loop of buildAST from line i on, with the nodes built so far and
\* the stack of open blocks (indices into nodes)
buildFrom(doc, i, tw, step, nodes, blockStack) ==
  IF i > Len(doc) THEN nodes
  ELSE
    LET text == doc[i] IN
    IF IsSkippedLine(text)
    THEN buildFrom(doc, i + 1, tw, step, nodes, blockStack)
    ELSE IF headerRegexTest(text)
    THEN buildFrom(doc, i + 1, tw, step,
                   Append(nodes, HeaderBlock(text, i, tw, step, StackTop(blockStack))),
                   Append(blockStack, Len(nodes) + 1))
    ELSE IF IsStructEnd(text)
    THEN IF Len(blockStack) > 0
         THEN buildFrom(doc, i + 1, tw, step,
                        closeBlock(nodes, blockStack, i),
                        SubSeq(blockStack, 1, Len(blockStack) - 1))
         ELSE buildFrom(doc, i + 1, tw, step,
                        Append(nodes, Node("End", i, countIndentFromText(text, tw), 0)),
                        blockStack)
    ELSE buildFrom(doc, i + 1, tw, step,
                   Append(nodes, ContentNode(text, i, tokenizeLine(text, i), tw,
                                             StackTop(blockStack))),
                   blockStack)

\* buildAST(document, tabWidth, indentLevel): the nodes below the Document root
buildAST(doc, tw, step) == buildFrom(doc, 1, tw, step, << >>, << >>)

\* node.children of node p (p = 0: root.children), as indices in push order
Children(ast, p) == SelectSeq([k \in 1..Len(ast) |-> k], LAMBDA k : ast[k].parent = p)

(***************************************************************************)
(* validator.ts                                                            *)
(***************************************************************************)
Error == "Error"

Warning == "Warning"

\* push(line, character, message, severity); args are the values the
\* message template interpolates
Diag(line, character, message, severity, args) ==
  [line |-> line, character |-> character, message |-> message,
   severity |-> severity, args |-> args]

MsgUnexpectedBrace == "Unexpected closing brace."
MsgUnexpectedBracket == "Unexpected closing bracket."
MsgUnclosedBrace == "Unclosed brace."
MsgUnclosedBracket == "Unclosed bracket."
MsgDuplicateKey == "Duplicate property key <key> in block <name>."
MsgBlockName == "Invalid block name: <name>."
MsgColonSpacing == "Inconsistent spacing around ':'. Expected 'name : struct.begin'."
MsgHeaderIndent == "Block header <name> should be indented at least <expected> spaces (found <indent>)."
MsgNotClosed == "Block <name> was not closed. Missing struct.end."
MsgOrphanEnd == "Found struct.end without a matching struct.begin."
MsgPropertyKey == "Invalid property key: <key>."
MsgEmptyValue == "Property <key> has an empty value."
MsgContentIndent == "Content inside block <name> should be indented at least <expected> spaces (found <indent>)."
MsgInvalidSyntax == "Invalid syntax: <text>. Expected a property (key = value) or a block definition."
MsgFloatingString == "Floating string literal found. All values must be part of a 'key = value' assignment."
MsgFloatingNumber == "Floating numeric literal found. All values must be part of a 'key = value' assignment."
MsgTypo == "Possible typo in keyword. Did you mean 'struct.begin'?"
MsgExpectedBegin == "Expected 'struct.begin' after ':'."

RECURSIVE Flatten(_, _)
\* the tokens of lines i.. in scan order
Flatten(lineTokens, i) ==
  IF i > Len(lineTokens) THEN << >> ELSE lineTokens[i] \o Flatten(lineTokens, i + 1)

RECURSIVE scanBrackets(_, _, _, _)
\* the bracketStack loop over the tokens from position k on: the diagnostics
\* of the unexpected closers and the stack left at the end
scanBrackets(tokens, k, bracketStack, diags) ==
  IF k > Len(tokens) THEN [stack |-> bracketStack, diags |-> diags]
  ELSE
    LET token == tokens[k]
        top   == IF Len(bracketStack) = 0 THEN "NONE" ELSE bracketStack[Len(bracketStack)].type
        pop   == SubSeq(bracketStack, 1, Len(bracketStack) - 1)
    IN  IF token.type \in {"LBRACE", "LBRACKET"}
        THEN scanBrackets(tokens, k + 1, Append(bracketStack, token), diags)
        ELSE IF token.type = "RBRACE"
        THEN IF top # "LBRACE"
             THEN scanBrackets(tokens, k + 1, bracketStack,
                               Append(diags, Diag(token.line, token.start, MsgUnexpectedBrace,
                                                  Error, << >>)))
             ELSE scanBrackets(tokens, k + 1, pop, diags)
        ELSE IF token.type = "RBRACKET"
        THEN IF top # "LBRACKET"
             THEN scanBrackets(tokens, k + 1, bracketStack,
                               Append(diags, Diag(token.line, token.start, MsgUnexpectedBracket,
                                                  Error, << >>)))
             ELSE scanBrackets(tokens, k + 1, pop, diags)
        ELSE scanBrackets(tokens, k + 1, bracketStack, diags)

\* severity of the diagnostics for openers left on the stack
UnclosedSeverity == Warning

\* the loop over the openers still on the stack at the end of the document
unclosedBrackets(bracketStack) ==
  [k \in 1..Len(bracketStack) |->
     Diag(bracketStack[k].line, bracketStack[k].start,
          IF bracketStack[k].text = <<"{">> THEN MsgUnclosedBrace ELSE MsgUnclosedBracket,
          UnclosedSeverity, << >>)]

\* the bracket balance diagnostics of validateDocument
bracketDiagnostics(doc) ==
  LET r == scanBrackets(Flatten(tokenize(doc), 1), 1, << >>, << >>)
  IN  r.diags \o unclosedBrackets(r.stack)

\* /^[A-Za-z0-9_\-\.\[\]\*]+$/.test(name)
NameChars == WordChars \cup {"-", ".", "[", "]", "*"}

IsValidName(name) == Len(name) > 0 /\ \A k \in 1..Len(name) : name[k] \in NameChars

\* text.includes(lit)
IncludesLit(text, lit) == \E j \in 0..(Len(text) - Len(lit)) : StartsWithAt(text, j, lit)

WildcardKey == <<"[", "*", "]">>

RECURSIVE duplicateKeys_noWildcard(_, _, _, _, _)
\* the knownKeys loop without the exemption of the '[*]' key
duplicateKeys_noWildcard(ast, b, kids, k, knownKeys) ==
  IF k > Len(kids) THEN << >>
  ELSE
    LET child == ast[kids[k]] IN
    IF child.type # "Property"
    THEN duplicateKeys_noWildcard(ast, b, kids, k + 1, knownKeys)
    ELSE IF child.key \in knownKeys
    THEN <<Diag(child.startLine, child.indent, MsgDuplicateKey, Warning,
                <<child.key, ast[b].name>>)>>
         \o duplicateKeys_noWildcard(ast, b, kids, k + 1, knownKeys)
    ELSE duplicateKeys_noWildcard(ast, b, kids, k + 1, knownKeys \cup {child.key})

RECURSIVE duplicateKeys(_, _, _, _, _)
\* the knownKeys loop over block.children from position k on
duplicateKeys(ast, b, kids, k, knownKeys) ==
  IF k > Len(kids) THEN << >>
  ELSE
    LET child == ast[kids[k]] IN
    IF child.type # "Property" \/ child.key = WildcardKey
    THEN duplicateKeys(ast, b, kids, k + 1, knownKeys)
    ELSE IF child.key \in knownKeys
    THEN <<Diag(child.startLine, child.indent, MsgDuplicateKey, Warning,
                <<child.key, ast[b].name>>)>>
         \o duplicateKeys(ast, b, kids, k + 1, knownKeys)
    ELSE duplicateKeys(ast, b, kids, k + 1, knownKeys \cup {child.key})

\* the two spacing checks around the first ':' of a header line
colonSpacing(lineText, line) ==
  LET colonIndex == IndexOf(lineText, ":")
  IN  (IF colonIndex > 0 /\ CharAt(lineText, colonIndex - 1) # " "
          /\ CharAt(lineText, colonIndex - 2) = " "
       THEN <<Diag(line, colonIndex - 1, MsgColonSpacing, Warning, << >>)>> ELSE << >>)
      \o
      (IF colonIndex > 0 /\ CharAt(lineText, colonIndex + 1) # " "
          /\ CharAt(lineText, colonIndex + 2) = " "
       THEN <<Diag(line, colonIndex + 1, MsgColonSpacing, Warning, << >>)>> ELSE << >>)

\* severity of the header indentation diagnostic
HeaderIndentSeverity_Error == Error

HeaderIndentSeverity == Warning

\* a slip in the unclosed check: only root-level blocks are reported
checkUnclosed_rootOnly(ast, b) ==
  IF ast[b].endLine = 0 /\ ast[b].parent = 0
  THEN <<Diag(ast[b].startLine, 0, MsgNotClosed, Error, <<ast[b].name>>)>> ELSE << >>

\* if (block.endLine == null) push(... was not closed ..., Error)
checkUnclosed(ast, b) ==
  IF ast[b].endLine = 0
  THEN <<Diag(ast[b].startLine, 0, MsgNotClosed, Error, <<ast[b].name>>)>> ELSE << >>

\* a slip in the comparison: a header exactly at the required indent is
\* reported too
checkHeaderIndent_strict(ast, b) ==
  LET block == ast[b] IN
  IF block.parent # 0 /\ block.indent <= ast[block.parent].requiredContentIndent
  THEN <<Diag(block.startLine, 0, MsgHeaderIndent, HeaderIndentSeverity,
              <<block.name, ast[block.parent].requiredContentIndent, block.indent>>)>>
  ELSE << >>

\* if (parent && parent.type === "Block") { if (block.header.indent < expected) push(...) }
checkHeaderIndent(ast, b) ==
  LET block == ast[b] IN
  IF block.parent # 0 /\ block.indent < ast[block.parent].requiredContentIndent
  THEN <<Diag(block.startLine, 0, MsgHeaderIndent, HeaderIndentSeverity,
              <<block.name, ast[block.parent].requiredContentIndent, block.indent>>)>>
  ELSE << >>

\* the diagnostics checkNode pushes for a Block itself, before its children
checkBlock(doc, ast, b) ==
  LET block == ast[b] IN
  duplicateKeys(ast, b, Children(ast, b), 1, {})
  \o (IF ~IsValidName(block.name)
      THEN <<Diag(block.startLine, 0, MsgBlockName, Warning, <<block.name>>)>> ELSE << >>)
  \o colonSpacing(doc[block.startLine], block.startLine)
  \o checkHeaderIndent(ast, b)
  \o checkUnclosed(ast, b)

\* the diagnostics checkNode pushes for a Property
checkProperty(ast, n) ==
  LET prop == ast[n] IN
  (IF ~IsValidName(prop.key)
   THEN <<Diag(prop.startLine, 0, MsgPropertyKey, Warning, <<prop.key>>)>> ELSE << >>)
  \o (IF prop.value = << >>
      THEN <<Diag(prop.startLine, 0, MsgEmptyValue, Warning, <<prop.key>>)>> ELSE << >>)
  \o (IF prop.parent # 0 /\ prop.indent < ast[prop.parent].requiredContentIndent
      THEN <<Diag(prop.startLine, 0, MsgContentIndent, Warning,
                  <<ast[prop.parent].name, ast[prop.parent].requiredContentIndent, prop.indent>>)>>
      ELSE << >>)

\* /^(".*"|'.*')/.test(text)
LooksLikeString(text) ==
  \E q \in {"'", "\""} :
    CharAt(text, 0) = q /\ \E k \in 1..(Len(text) - 1) : CharAt(text, k) = q

\* /^-?(\d+(\.\d*)?|\.\d+)(f)?$/.test(text)
LooksLikeNumber(text) ==
  LET neg == IF CharAt(text, 0) = "-" THEN 1 ELSE 0
      d1  == RunLen(text, neg, Digits)
      dot == IF CharAt(text, neg + d1) = "." THEN 1 ELSE 0
      d2  == IF dot = 1 THEN RunLen(text, neg + d1 + 1, Digits) ELSE 0
      num == neg + d1 + dot + d2
      f   == IF CharAt(text, num) = "f" THEN 1 ELSE 0
  IN  /\ d1 >= 1 \/ (dot = 1 /\ d2 >= 1)
      /\ num + f = Len(text)

\* the diagnostic checkNode pushes for an Invalid node
checkInvalid(ast, n) ==
  LET invalid == ast[n]
      message == IF LooksLikeString(invalid.text) THEN MsgFloatingString
                 ELSE IF LooksLikeNumber(invalid.text) THEN MsgFloatingNumber
                 ELSE MsgInvalidSyntax
  IN  <<Diag(invalid.startLine, invalid.indent, message, Warning, <<invalid.text>>)>>

\* the diagnostic checkNode pushes for a MalformedHeader node
checkMalformedHeader(ast, n) ==
  LET malformed  == ast[n]
      pieces     == SplitAt(malformed.text, 1, ":")
      afterColon == IF Len(pieces) >= 2 THEN Trim(pieces[2]) ELSE << >>
  IN  IF /\ afterColon # << >>
         /\ IncludesLit(afterColon, <<"s", "t", "r", "u", "c", "t">>)
         /\ IncludesLit(afterColon, <<"b", "e", "g", "i", "n">>)
      THEN <<Diag(malformed.startLine, 0, MsgTypo, Warning, << >>)>>
      ELSE <<Diag(malformed.startLine, 0, MsgExpectedBegin, Warning, << >>)>>

\* the End check of the earlier validator: no diagnostic for a close that
\* no non-blank line follows
checkEnd_suppressedAtEof(doc, ast, n) ==
  IF \A k \in (ast[n].startLine + 1)..Len(doc) : Trim(doc[k]) = << >>
  THEN << >>
  ELSE <<Diag(ast[n].startLine, 0, MsgOrphanEnd, Error, << >>)>>

\* the End check of the earlier validator: no diagnostic for a close that
\* follows another struct.end line
checkEnd_suppressedAfterEnd(doc, ast, n) ==
  IF \E p \in 1..(ast[n].startLine - 1) :
       /\ Trim(doc[p]) = StructEnd
       /\ \A k \in (p + 1)..(ast[n].startLine - 1) : Trim(doc[k]) = << >>
  THEN << >>
  ELSE <<Diag(ast[n].startLine, 0, MsgOrphanEnd, Error, << >>)>>

\* the diagnostic checkNode pushes for an End node
checkEnd(doc, ast, n) == <<Diag(ast[n].startLine, 0, MsgOrphanEnd, Error, << >>)>>

RECURSIVE checkNode(_, _, _)
RECURSIVE checkChildren(_, _, _, _)
\* checkNode(node, parent) for node n of the tree
checkNode(doc, ast, n) ==
  LET type == ast[n].type IN
  IF type = "Block"
  THEN checkBlock(doc, ast, n) \o checkChildren(doc, ast, Children(ast, n), 1)
  ELSE IF type = "End" THEN checkEnd(doc, ast, n)
  ELSE IF type = "Property" THEN checkProperty(ast, n)
  ELSE IF type = "Invalid" THEN checkInvalid(ast, n)
  ELSE IF type = "MalformedHeader" THEN checkMalformedHeader(ast, n)
  ELSE << >>

\* the loop over a children array from position k on
checkChildren(doc, ast, kids, k) ==
  IF k > Len(kids) THEN << >>
  ELSE checkNode(doc, ast, kids[k]) \o checkChildren(doc, ast, kids, k + 1)

\* validateDocument(document, tabWidth, indentLevel)
validateDocument(doc, tw, step) ==
  LET ast == buildAST(doc, tw, step)
  IN  bracketDiagnostics(doc) \o checkChildren(doc, ast, Children(ast, 0), 1)

(***************************************************************************)
(* astBuilder.ts: the token scan that opens its validateDocument.  Its     *)
(* tokenize is the tokenizer above.                                        *)
(***************************************************************************)
MsgFloatingValue == "Floating value '<text>' is not part of an assignment."
MsgUnclosedString == "Unclosed string literal."

\* token.text.endsWith(q)
EndsWith(text, q) == Len(text) > 0 /\ text[Len(text)] = q

\* a value token met before any '=' of its line, unless it is the INTEGER of
\* an index [n]
astBuilder_floating(tokens, j, hasAssignment) ==
  LET token == tokens[j]
      index == /\ token.type = "INTEGER"
               /\ j > 1 /\ tokens[j - 1].type = "LBRACKET"
               /\ j < Len(tokens) /\ tokens[j + 1].type = "RBRACKET"
  IN  IF token.type \in {"STRING", "DOUBLE_STRING", "INTEGER", "FLOAT"}
         /\ ~hasAssignment /\ ~index
      THEN <<Diag(token.line, token.start, MsgFloatingValue, Warning, <<token.text>>)>>
      ELSE << >>

\* a string token whose text does not end with its quote
astBuilder_unclosedString(token) ==
  IF \/ token.type = "STRING" /\ ~EndsWith(token.text, "'")
     \/ token.type = "DOUBLE_STRING" /\ ~EndsWith(token.text, "\"")
  THEN <<Diag(token.line, token.start, MsgUnclosedString, Error, << >>)>>
  ELSE << >>

RECURSIVE astBuilder_scanLine(_, _, _, _)
\* the inner loop over the tokens of one line, from token j on
astBuilder_scanLine(tokens, j, hasAssignment, st) ==
  IF j > Len(tokens) THEN st
  ELSE
    LET token  == tokens[j]
        assign == hasAssignment \/ token.type = "EQUAL"
        top    == IF Len(st.stack) = 0 THEN "NONE" ELSE st.stack[Len(st.stack)].type
        pop    == SubSeq(st.stack, 1, Len(st.stack) - 1)
        values == astBuilder_floating(tokens, j, assign) \o astBuilder_unclosedString(token)
        next   ==
          IF token.type \in {"LBRACE", "LBRACKET"}
          THEN [stack |-> Append(st.stack, token), diags |-> st.diags \o values]
          ELSE IF token.type = "RBRACE"
          THEN IF top # "LBRACE"
               THEN [stack |-> st.stack,
                     diags |-> st.diags \o values
                               \o <<Diag(token.line, token.start, MsgUnexpectedBrace, Error, << >>)>>]
               ELSE [stack |-> pop, diags |-> st.diags \o values]
          ELSE IF token.type = "RBRACKET"
          THEN IF top # "LBRACKET"
               THEN [stack |-> st.stack,
                     diags |-> st.diags \o values
                               \o <<Diag(token.line, token.start, MsgUnexpectedBracket, Error, << >>)>>]
               ELSE [stack |-> pop, diags |-> st.diags \o values]
          ELSE [stack |-> st.stack, diags |-> st.diags \o values]
    IN  astBuilder_scanLine(tokens, j + 1, assign, next)

RECURSIVE astBuilder_scanLines(_, _, _)
\* the outer loop over the lines, hasAssignment reset on each
astBuilder_scanLines(lineTokens, i, st) ==
  IF i > Len(lineTokens) THEN st
  ELSE astBuilder_scanLines(lineTokens, i + 1, astBuilder_scanLine(lineTokens[i], 1, FALSE, st))

\* the loop over the openers still on the stack at the end of the document
astBuilder_unclosedBrackets(bracketStack) ==
  [k \in 1..Len(bracketStack) |->
     Diag(bracketStack[k].line, bracketStack[k].start,
          IF bracketStack[k].text = <<"{">> THEN MsgUnclosedBrace ELSE MsgUnclosedBracket,
          Error, << >>)]

\* the diagnostics validateDocument of astBuilder.ts holds after its token scan
astBuilder_tokenDiagnostics(doc) ==
  LET st == astBuilder_scanLines(tokenize(doc), 1, [stack |-> << >>, diags |-> << >>])
  IN  st.diags \o astBuilder_unclosedBrackets(st.stack)

(***************************************************************************)
(* astBuilder.ts: the two-pass buildAST of the earlier generation.  The    *)
(* first pass pairs headers and closes with a stack and looks ahead for    *)
(* parameter lines; the tree is then built by containment of line spans.   *)
(***************************************************************************)
\* headerRegex = /^(\s*)(.+?)\s*:\s*struct\.begin\b(?:\s+([\s\S]*))?$/
\* the colons the expression can match with a first group of w characters:
\* after 'struct.begin' the line ends or goes on with whitespace
astBuilder_HeaderColons(text, w) ==
  {c \in HeaderColons(text, w) :
     \/ HeaderTailEnd(text, c) = Len(text)
     \/ IsWs(CharAt(text, HeaderTailEnd(text, c)))}

\* headerRegex.test(text)
astBuilder_headerRegexTest(text) == astBuilder_HeaderColons(text, 0) # {}

\* text.match(headerRegex): m3 is what follows the whitespace after
\* 'struct.begin', empty when nothing does
astBuilder_headerRegexMatch(text) ==
  LET w == CHOOSE n \in 0..LeadWs(text) :
             /\ astBuilder_HeaderColons(text, n) # {}
             /\ \A m \in (n + 1)..LeadWs(text) : astBuilder_HeaderColons(text, m) = {}
      c == CHOOSE k \in astBuilder_HeaderColons(text, w) :
             \A m \in astBuilder_HeaderColons(text, w) : k <= m
      e == HeaderTailEnd(text, c)
  IN  [m1 |-> Slice(text, 0, w),
       m2 |-> Slice(text, w, c),
       m3 |-> Slice(text, e + RunLen(text, e, Blanks), Len(text))]

\* WINDOW of the header look-ahead for a brace-delimited parameter block
ParamWindow == 5

\* WINDOW of the header look-ahead for a brace-only line
HeaderBraceWindow == 3

\* WINDOW of the property look-ahead for a brace-only line
PropertyBraceWindow == 2

RECURSIVE astBuilder_scanBraces(_, _, _, _)
\* for (const ch of nxt) from character k on: the text accumulated, the
\* braces left open, and whether a '}' brought the count to zero
astBuilder_scanBraces(nxt, k, acc, open) ==
  IF k > Len(nxt) THEN [acc |-> acc, open |-> open, found |-> FALSE]
  ELSE IF nxt[k] = "{" THEN astBuilder_scanBraces(nxt, k + 1, Append(acc, nxt[k]), open + 1)
  ELSE IF nxt[k] = "}"
  THEN IF open <= 1 THEN [acc |-> Append(acc, nxt[k]), open |-> 0, found |-> TRUE]
       ELSE astBuilder_scanBraces(nxt, k + 1, Append(acc, nxt[k]), open - 1)
  ELSE astBuilder_scanBraces(nxt, k + 1, Append(acc, nxt[k]), open)

RECURSIVE astBuilder_paramBlock(_, _, _, _, _, _, _)
\* the look-ahead for a brace-delimited block after the header on line i,
\* from line look on: the parameter text and the last line it takes, or
\* found = FALSE
astBuilder_paramBlock(doc, tw, i, indent, look, acc, open) ==
  IF look > Len(doc) \/ look > i + ParamWindow
  THEN [found |-> FALSE, paramsRaw |-> << >>, last |-> 0]
  ELSE
    LET nxt == doc[look] IN
    IF Trim(nxt) = << >>
    THEN astBuilder_paramBlock(doc, tw, i, indent, look + 1, acc, open)
    ELSE IF CharAt(TrimStart(nxt), 0) # "{" /\ open = 0
    THEN [found |-> FALSE, paramsRaw |-> << >>, last |-> 0]
    ELSE IF CharAt(TrimStart(nxt), 0) = "{" /\ countIndentFromText(nxt, tw) < indent
    THEN [found |-> FALSE, paramsRaw |-> << >>, last |-> 0]
    ELSE LET r == astBuilder_scanBraces(nxt, 1, acc, open)
         IN  IF r.found THEN [found |-> TRUE, paramsRaw |-> r.acc, last |-> look]
             ELSE astBuilder_paramBlock(doc, tw, i, indent, look + 1, r.acc, r.open)

\* /^\{[^}]*\}$/.test(trimmed)
IsBraceOnly(trimmed) ==
  /\ Len(trimmed) >= 2
  /\ trimmed[1] = "{"
  /\ trimmed[Len(trimmed)] = "}"
  /\ \A k \in 2..(Len(trimmed) - 1) : trimmed[k] # "}"

RECURSIVE astBuilder_braceLine(_, _, _, _, _, _)
\* the look-ahead for a brace-only line among the next non-empty lines,
\* from line k on with seen non-empty lines looked at: the line taken, 0 if
\* none
astBuilder_braceLine(doc, tw, indent, window, k, seen) ==
  IF k > Len(doc) \/ seen >= window THEN 0
  ELSE IF Trim(doc[k]) = << >> THEN astBuilder_braceLine(doc, tw, indent, window, k + 1, seen)
  ELSE IF IsBraceOnly(Trim(doc[k])) /\ countIndentFromText(doc[k], tw) >= indent THEN k
  ELSE astBuilder_braceLine(doc, tw, indent, window, k + 1, seen + 1)

\* the BeginRec of the header on line i and the lines its look-ahead consumes
astBuilder_begin(doc, tw, i) ==
  LET m      == astBuilder_headerRegexMatch(doc[i])
      indent == countIndentFromText(m.m1, tw)
      block  == IF m.m3 # << >> THEN [found |-> FALSE, paramsRaw |-> << >>, last |-> 0]
                ELSE astBuilder_paramBlock(doc, tw, i, indent, i + 1, << >>, 0)
      brace  == IF m.m3 # << >> \/ block.found THEN 0
                ELSE astBuilder_braceLine(doc, tw, indent, HeaderBraceWindow, i + 1, 0)
      paramsRaw == IF m.m3 # << >> THEN m.m3
                   ELSE IF block.found THEN block.paramsRaw
                   ELSE IF brace # 0 THEN Trim(doc[brace])
                   ELSE << >>
  IN  [rec  |-> [startLine |-> i, name |-> Trim(m.m2), indent |-> indent,
                 paramsRaw |-> paramsRaw, params |-> parseParams(paramsRaw), endLine |-> 0],
       skip |-> IF block.found THEN (i + 1)..block.last
                ELSE IF brace # 0 THEN {brace} ELSE {}]

RECURSIVE astBuilder_firstPass(_, _, _, _)
\* the first for loop of buildAST from line i on; st holds begins, beginStack
\* (indices into begins), orphanEnds and skipLines
astBuilder_firstPass(doc, tw, i, st) ==
  IF i > Len(doc) THEN st
  ELSE IF Trim(doc[i]) = << >> THEN astBuilder_firstPass(doc, tw, i + 1, st)
  ELSE IF astBuilder_headerRegexTest(doc[i])
  THEN LET b == astBuilder_begin(doc, tw, i)
       IN  astBuilder_firstPass(doc, tw, i + 1,
             [st EXCEPT !.begins = Append(@, b.rec),
                        !.beginStack = Append(@, Len(st.begins) + 1),
                        !.skipLines = @ \cup b.skip])
  ELSE IF IsStructEnd(doc[i])
  THEN IF Len(st.beginStack) = 0
       THEN astBuilder_firstPass(doc, tw, i + 1, [st EXCEPT !.orphanEnds = Append(@, i)])
       ELSE astBuilder_firstPass(doc, tw, i + 1,
              [st EXCEPT !.begins[st.beginStack[Len(st.beginStack)]].endLine = i,
                         !.beginStack = SubSeq(@, 1, Len(@) - 1)])
  ELSE astBuilder_firstPass(doc, tw, i + 1, st)

\* the state of the first pass before line 0
astBuilder_start ==
  [begins |-> << >>, beginStack |-> << >>, orphanEnds |-> << >>, skipLines |-> {}]

\* WINDOW_LINES of the orphan recovery
RecoveryWindow == 500

\* the candidate filter with its comparison turned round: the unmatched
\* begins after line eLine
astBuilder_candidates_after(begins, eLine) ==
  LET open == {k \in 1..Len(begins) : begins[k].startLine > eLine /\ begins[k].endLine = 0}
      RECURSIVE Desc(_)
      Desc(S) == IF S = {} THEN << >>
                 ELSE LET k == CHOOSE x \in S : \A y \in S : y <= x
                      IN  <<k>> \o Desc(S \ {k})
  IN  Desc(open)

\* the unmatched begins before line eLine, most recent first (indices into
\* begins, which is ordered by startLine)
astBuilder_candidates(begins, eLine) ==
  LET open == {k \in 1..Len(begins) : begins[k].startLine < eLine /\ begins[k].endLine = 0}
      RECURSIVE Desc(_)
      Desc(S) == IF S = {} THEN << >>
                 ELSE LET k == CHOOSE x \in S : \A y \in S : y <= x
                      IN  <<k>> \o Desc(S \ {k})
  IN  Desc(open)

\* the begin an orphan close on line eLine is given to, 0 if none: the most
\* recent candidate within the window indented no deeper than the close, or
\* else the most recent candidate within the window
astBuilder_recoveredBegin(doc, tw, begins, eLine) ==
  LET eIndent    == countIndentFromText(doc[eLine], tw)
      candidates == astBuilder_candidates(begins, eLine)
      near       == SelectSeq(candidates, LAMBDA c : eLine - begins[c].startLine <= RecoveryWindow)
      fitting    == SelectSeq(near, LAMBDA c : begins[c].indent <= eIndent)
  IN  IF Len(fitting) > 0 THEN fitting[1]
      ELSE IF Len(near) > 0 THEN near[1]
      ELSE 0

RECURSIVE astBuilder_recover(_, _, _, _, _, _)
\* the loop of the heuristic pass over orphanEnds from position k on
astBuilder_recover(doc, tw, begins, orphanEnds, k, newOrphans) ==
  IF k > Len(orphanEnds) THEN [begins |-> begins, orphanEnds |-> newOrphans]
  ELSE LET c == astBuilder_recoveredBegin(doc, tw, begins, orphanEnds[k])
       IN  IF c # 0
           THEN astBuilder_recover(doc, tw, [begins EXCEPT ![c].endLine = orphanEnds[k]],
                                   orphanEnds, k + 1, newOrphans)
           ELSE astBuilder_recover(doc, tw, begins, orphanEnds, k + 1,
                                   Append(newOrphans, orphanEnds[k]))

\* begins and orphanEnds after the heuristic pass
astBuilder_recovery(doc, tw, st) ==
  IF Len(st.orphanEnds) > 0 /\ Len(st.begins) > 0
  THEN astBuilder_recover(doc, tw, st.begins, st.orphanEnds, 1, << >>)
  ELSE [begins |-> st.begins, orphanEnds |-> st.orphanEnds]

\* the end of a span without the Infinity of an unclosed block
astBuilder_end_unset(doc, endLine) == endLine

\* p.endLine == null ? Infinity : p.endLine, as a line number past every line
astBuilder_end(doc, endLine) == IF endLine = 0 THEN Len(doc) + 1 ELSE endLine

\* findParentIdx without its comparison of start lines: the first enclosing
\* begin found stays the parent
astBuilder_findParentIdx_first(doc, begins, idx) ==
  LET enclosing == {j \in 1..Len(begins) :
                      /\ j # idx
                      /\ begins[j].startLine < begins[idx].startLine
                      /\ astBuilder_end(doc, begins[j].endLine)
                           >= astBuilder_end(doc, begins[idx].endLine)}
  IN  IF enclosing = {} THEN 0 ELSE CHOOSE j \in enclosing : \A k \in enclosing : j <= k

\* findParentIdx(idx): among the other begins that start before begin idx
\* and end no earlier, the one that starts last; 0 when there is none
astBuilder_findParentIdx(doc, begins, idx) ==
  LET b == begins[idx]
      enclosing == {j \in 1..Len(begins) :
                      /\ j # idx
                      /\ begins[j].startLine < b.startLine
                      /\ astBuilder_end(doc, begins[j].endLine) >= astBuilder_end(doc, b.endLine)}
  IN  IF enclosing = {} THEN 0
      ELSE CHOOSE j \in enclosing :
             \A k \in enclosing : begins[k].startLine <= begins[j].startLine

\* the Block nodes made from begins, each with the parent findParentIdx gives
astBuilder_blocks(doc, begins, step) ==
  [k \in 1..Len(begins) |->
     [Node("Block", begins[k].startLine, begins[k].indent,
           astBuilder_findParentIdx(doc, begins, k)) EXCEPT
        !.endLine = begins[k].endLine,
        !.name = begins[k].name,
        !.paramsRaw = begins[k].paramsRaw,
        !.params = begins[k].params,
        !.requiredContentIndent = begins[k].indent + step]]

RECURSIVE astBuilder_visit(_, _, _, _, _, _)
\* visit(nodes) of findContainingBlock for the children list of block p (0:
\* the root) from position k on: the first block whose span holds the line
\* is chosen and its children are visited
astBuilder_visit(doc, blocks, p, k, line, chosen) ==
  LET kids == Children(blocks, p) IN
  IF k > Len(kids) THEN chosen
  ELSE LET b == blocks[kids[k]] IN
       IF b.startLine < line /\ line < astBuilder_end(doc, b.endLine)
       THEN astBuilder_visit(doc, blocks, kids[k], 1, line, kids[k])
       ELSE astBuilder_visit(doc, blocks, p, k + 1, line, chosen)

\* findContainingBlock(line): index of the deepest block holding the line, 0
\* when no block does
astBuilder_findContainingBlock(doc, blocks, line) == astBuilder_visit(doc, blocks, 0, 1, line, 0)

\* valueText.match(/^(.*?)(\{\s*[^}]*\s*\})\s*$/): the column of the first
\* '{' from which no '}' occurs before the closing one that ends the value,
\* -1 when the value does not end in such a group
astBuilder_trailingBrace(valueText) ==
  LET n    == Len(valueText) - TrailWs(valueText)
      opts == {p \in 0..(n - 2) :
                 /\ CharAt(valueText, p) = "{"
                 /\ \A k \in (p + 1)..(n - 2) : CharAt(valueText, k) # "}"}
  IN  IF n >= 2 /\ CharAt(valueText, n - 1) = "}" /\ opts # {}
      THEN CHOOSE p \in opts : \A q \in opts : p <= q
      ELSE -1

\* the Property node of line i, whose tokens hold an EQUAL at index eqIdx,
\* and the brace-only line its look-ahead consumes (0 if none)
astBuilder_property(doc, tw, i, tokens, eqIdx, parent) ==
  LET text      == doc[i]
      indent    == countIndentFromText(text, tw)
      valueText == Trim(Slice(text, tokens[eqIdx + 1].end, Len(text)))
      t         == astBuilder_trailingBrace(valueText)
      brace     == IF t >= 0 THEN 0
                   ELSE astBuilder_braceLine(doc, tw, indent, PropertyBraceWindow, i + 1, 0)
      paramsRaw == IF t >= 0 THEN Slice(valueText, t, Len(valueText))
                   ELSE IF brace # 0 THEN Trim(doc[brace])
                   ELSE << >>
  IN  [node |-> [Node("Property", i, indent, parent) EXCEPT
                   !.key = Trim(JoinTexts(tokens, eqIdx)),
                   !.value = IF t >= 0 THEN Trim(Slice(valueText, 0, t)) ELSE valueText,
                   !.paramsRaw = paramsRaw,
                   !.params = parseParams(paramsRaw)],
       skip |-> IF brace # 0 THEN {brace} ELSE {}]

\* key of the Property made of a line without assignment
FallbackKey == <<"_", "l", "i", "n", "e">>

RECURSIVE astBuilder_secondPass(_, _, _, _, _, _, _)
\* the second for loop of buildAST from line i on: blocks are the Block
\* nodes, nodes the nodes attached so far (blocks first), skipLines the
\* lines consumed so far
astBuilder_secondPass(doc, tw, i, begins, orphanEnds, nodes, skipLines) ==
  IF i > Len(doc) THEN nodes
  ELSE IF \/ i \in skipLines
          \/ Trim(doc[i]) = << >>
          \/ \E k \in 1..Len(begins) : begins[k].startLine = i
          \/ \E k \in 1..Len(begins) : begins[k].endLine = i
  THEN astBuilder_secondPass(doc, tw, i + 1, begins, orphanEnds, nodes, skipLines)
  ELSE IF \E k \in 1..Len(orphanEnds) : orphanEnds[k] = i
  THEN astBuilder_secondPass(doc, tw, i + 1, begins, orphanEnds,
         Append(nodes, Node("End", i, countIndentFromText(doc[i], tw), 0)), skipLines)
  ELSE
    LET tokens    == tokenizeLine(doc[i], i)
        eqIdx     == EqualIndex(tokens)
        container == astBuilder_findContainingBlock(doc, SubSeq(nodes, 1, Len(begins)), i)
    IN  IF eqIdx > 0
        THEN LET p == astBuilder_property(doc, tw, i, tokens, eqIdx, container)
             IN  astBuilder_secondPass(doc, tw, i + 1, begins, orphanEnds,
                                       Append(nodes, p.node), skipLines \cup p.skip)
        ELSE astBuilder_secondPass(doc, tw, i + 1, begins, orphanEnds,
               Append(nodes, [Node("Property", i, countIndentFromText(doc[i], tw), container)
                                EXCEPT !.key = FallbackKey, !.value = Trim(doc[i])]),
               skipLines)

\* buildAST(document, tabWidth, indentLevel) of astBuilder.ts: the nodes
\* below the Document root, the Block nodes first
astBuilder_buildAST(doc, tw, step) ==
  LET first == astBuilder_firstPass(doc, tw, 1, astBuilder_start)
      rec   == astBuilder_recovery(doc, tw, first)
  IN  astBuilder_secondPass(doc, tw, 1, rec.begins, rec.orphanEnds,
                            astBuilder_blocks(doc, rec.begins, step), first.skipLines)

\* the warning of the array-order rule
MsgOutOfOrder == "Array elements are out of order."

\* value of a decimal digit
DigitValue(c) ==
  CHOOSE v \in 0..9 : <<"0", "1", "2", "3", "4", "5", "6", "7", "8", "9">>[v + 1] = c

RECURSIVE NumberValue(_)
\* value of a run of decimal digits
NumberValue(ds) ==
  IF ds = << >> THEN 0
  ELSE 10 * NumberValue(SubSeq(ds, 1, Len(ds) - 1)) + DigitValue(ds[Len(ds)])

\* `Non-sequential array index. Expected ${...} but got ${...}.`
MsgNonSequential == "Non-sequential array index. Expected {0} but got {1}."

\* parseInt(text, 10): the value of the digits that follow leading
\* whitespace and an optional sign, NaN when no digit does
astBuilder_parseInt(text) ==
  LET s      == LeadWs(text)
      signed == IF CharAt(text, s) \in {"-", "+"} THEN 1 ELSE 0
      n      == RunLen(text, s + signed, Digits)
      value  == NumberValue(Slice(text, s + signed, s + signed + n))
  IN  IF n = 0 THEN [nan |-> TRUE, value |-> 0]
      ELSE [nan |-> FALSE, value |-> IF CharAt(text, s) = "-" THEN 0 - value ELSE value]

\* node.children.filter(Property with a key "[...]" other than "[*]")
astBuilder_arrayChildren(ast, b) ==
  SelectSeq(Children(ast, b),
            LAMBDA n : /\ ast[n].type = "Property"
                       /\ CharAt(ast[n].key, 0) = "["
                       /\ CharAt(ast[n].key, Len(ast[n].key) - 1) = "]"
                       /\ ast[n].key # WildcardKey)

RECURSIVE astBuilder_arrayPairs(_, _, _, _)
\* the loop over adjacent indices from pair i on (1-based): an out-of-order
\* pair is reported and ends the loop, a pair that does not step by one is
\* reported with the expected index
astBuilder_arrayPairs(ast, kids, indices, i) ==
  IF i > Len(indices) - 1 THEN << >>
  ELSE
    LET a    == indices[i]
        b    == indices[i + 1]
        line == ast[kids[i + 1]].startLine
    IN  IF ~a.nan /\ ~b.nan /\ a.value > b.value
        THEN <<Diag(line, 0, MsgOutOfOrder, Warning, << >>)>>
        ELSE (IF a.nan \/ b.nan \/ a.value # b.value - 1
              THEN <<Diag(line, 0, MsgNonSequential, Warning,
                          <<IF a.nan THEN "NaN" ELSE ToString(a.value + 1),
                            IF b.nan THEN "NaN" ELSE ToString(b.value)>>)>>
              ELSE << >>)
             \o astBuilder_arrayPairs(ast, kids, indices, i + 1)

\* the array-index check of checkNode for Block b
astBuilder_arrayOrder(ast, b) ==
  LET arrayChildren == astBuilder_arrayChildren(ast, b)
      indices == [k \in 1..Len(arrayChildren) |->
                    astBuilder_parseInt(SubSeq(ast[arrayChildren[k]].key, 2,
                                               Len(ast[arrayChildren[k]].key) - 1))]
  IN  IF Len(arrayChildren) > 1 THEN astBuilder_arrayPairs(ast, arrayChildren, indices, 1)
      ELSE << >>

(***************************************************************************)
(* formatter.ts                                                            *)
(***************************************************************************)
\* vscode.TextEdit.replace(new vscode.Range(line, 0, line, endChar), newText)
TextEdit(line, endChar, newText) == [line |-> line, endChar |-> endChar, newText |-> newText]

\* a slip in the edit range: it ends at the expected column, not at the
\* first non-blank character
ensureIndent_rangeToExpected(doc, tw, line, expected) ==
  LET actual == countIndentFromText(doc[line], tw)
  IN  IF actual # expected THEN <<TextEdit(line, expected, Spaces(expected))>> ELSE << >>

\* ensureIndent without its comparison: an edit for every line it is asked about
ensureIndent_unconditional(doc, tw, line, expected) ==
  <<TextEdit(line, firstNonWhitespaceCharacterIndex(doc[line]), Spaces(expected))>>

\* ensureIndent(line, expected): the edit pushed, if any
ensureIndent(doc, tw, line, expected) ==
  LET text        == doc[line]
      actualChars == firstNonWhitespaceCharacterIndex(text)
      actual      == countIndentFromText(text, tw)
  IN  IF actual # expected THEN <<TextEdit(line, actualChars, Spaces(expected))>> ELSE << >>

\* currentHeaderIndent of walk: measured on the line of the document the
\* formatter was handed, to which no edit has been applied yet
currentHeaderIndent(doc, tw, block) == countIndentFromText(doc[block.startLine], tw)

RECURSIVE walk(_, _, _, _, _, _)
RECURSIVE walkChildren(_, _, _, _, _, _, _)
\* walk(node, parent) for node n; parentRequired is the requiredContentIndent
\* of the parent Block as walk left it, -1 when the parent is the Document
walk(doc, ast, tw, step, n, parentRequired) ==
  LET node == ast[n] IN
  IF node.type = "Block"
  THEN LET expectedHeaderIndent == IF parentRequired >= 0 THEN parentRequired ELSE 0
           current  == currentHeaderIndent(doc, tw, node)
           required == current + step
       IN  ensureIndent(doc, tw, node.startLine, expectedHeaderIndent)
           \o walkChildren(doc, ast, tw, step, Children(ast, n), 1, required)
           \o (IF node.endLine # 0 THEN ensureIndent(doc, tw, node.endLine, current)
               ELSE << >>)
  ELSE IF node.type \in {"Property", "Invalid"}
  THEN IF parentRequired >= 0 THEN ensureIndent(doc, tw, node.startLine, parentRequired)
       ELSE << >>
  ELSE << >>

\* the loop over a children array from position k on
walkChildren(doc, ast, tw, step, kids, k, parentRequired) ==
  IF k > Len(kids) THEN << >>
  ELSE walk(doc, ast, tw, step, kids[k], parentRequired)
       \o walkChildren(doc, ast, tw, step, kids, k + 1, parentRequired)

\* diagnostics.some((d) => d.severity === Error)
HasError(diags) == \E k \in 1..Len(diags) : diags[k].severity = Error

\* the formatter without its safety gate
formatDocument_ungated(doc, step, tw) ==
  LET ast == buildAST(doc, tw, step)
  IN  walkChildren(doc, ast, tw, step, Children(ast, 0), 1, -1)

\* formatDocument(document, indentLevel, tabWidth)
formatDocument(doc, step, tw) ==
  IF HasError(validateDocument(doc, tw, step)) THEN << >>
  ELSE LET ast == buildAST(doc, tw, step)
       IN  walkChildren(doc, ast, tw, step, Children(ast, 0), 1, -1)

RECURSIVE applyEdits(_, _, _)
\* the edits applied to the lines, in order from edit k on: each line becomes
\* the edit's new indentation followed by the line without its leading
\* whitespace
applyEdits(lines, es, k) ==
  IF k > Len(es) THEN lines
  ELSE applyEdits([lines EXCEPT ![es[k].line] = es[k].newText \o TrimStart(lines[es[k].line])],
                  es, k + 1)

(***************************************************************************)
(* The documents, settings and requests the model explores.                *)
(***************************************************************************)
\* longest document of freely combined lines
MaxLines == 2

\* widest leading run of spaces of an input line
MaxIndent == 1

\* formatting passes applied to one document
MaxPasses == 1

\* stalker2CfgValidator.tabWidth and stalker2CfgValidator.indentLevel
TabWidths == {1, 2}

IndentLevels == {1, 2}

HeaderA == <<"A", " ", ":", " ">> \o StructBegin

PropX == <<"x", " ", "=", " ", "1">>

FloatingV == <<"'", "v", "'">>

\* leading whitespace of an input line: runs of spaces, or one tab
Indents == {Spaces(n) : n \in 0..MaxIndent} \cup {<<"\t">>}

\* every way to indent the lines of a sequence of line bodies
Indented(bodies) ==
  {[k \in 1..Len(bodies) |-> ws[k] \o bodies[k]] : ws \in [1..Len(bodies) -> Indents]}

\* all sequences of 1..n elements of a set
SeqsUpTo(S, n) == UNION {[1..k -> S] : k \in 1..n}

\* block shapes too long to be reached by free combination: a block with a
\* property or a floating literal, and nested blocks
BlockShapes ==
  {<<HeaderA, PropX, StructEnd>>,
   <<HeaderA, FloatingV, StructEnd>>,
   <<HeaderA, HeaderA, StructEnd, StructEnd>>,
   <<HeaderA, HeaderA, PropX, StructEnd, StructEnd>>,
   <<HeaderA, PropX, HeaderA, StructEnd, StructEnd>>}

\* the documents handed to the formatter: every indentation of the block
\* shapes and of every short sequence of header, property and close lines
FmtDocs ==
  UNION {Indented(bodies) :
           bodies \in BlockShapes \cup SeqsUpTo({HeaderA, PropX, StructEnd}, MaxLines)}

NoDocument == << >>

TypeOK ==
  /\ tabWidth \in TabWidths
  /\ indentLevel \in IndentLevels
  /\ passes \in 0..MaxPasses
  /\ pc \in {"edited", "scanned", "validated", "formatted"}

\* no document is open in the host and nothing has happened in it
HostIdle ==
  /\ contents = << >>
  /\ published = << >>
  /\ diagnosticTimeout = 0
  /\ timers = {}
  /\ clock = 0
  /\ events = 0
  /\ lastEvent = << >>
  /\ runs = 0
  /\ dirty = {}

InitWith(docs, tws, steps) ==
  /\ document \in docs
  /\ HostIdle
  /\ tabWidth \in tws
  /\ indentLevel \in steps
  /\ diagnostics = << >>
  /\ astBuilder_diagnostics = << >>
  /\ edits = << >>
  /\ before = NoDocument
  /\ passes = 0
  /\ pc = "edited"

Init == InitWith(FmtDocs, TabWidths, IndentLevels)

\* the diagnostics provider runs validateDocument on the document
Validate ==
  /\ pc = "edited"
  /\ diagnostics' = validateDocument(document, tabWidth, indentLevel)
  /\ pc' = "validated"
  /\ UNCHANGED <<document, tabWidth, indentLevel, astBuilder_diagnostics, edits, before, passes, host>>

\* the formatting provider runs formatDocument and returns its edits
Format ==
  /\ pc = "validated"
  /\ edits' = formatDocument(document, indentLevel, tabWidth)
  /\ pc' = "formatted"
  /\ UNCHANGED <<document, tabWidth, indentLevel, diagnostics, astBuilder_diagnostics, before, passes, host>>

\* the returned edits are applied to the document; diagnostics and edits
\* stay those of the document as it was before
ApplyEdits ==
  /\ pc = "formatted"
  /\ passes < MaxPasses
  /\ document' = applyEdits(document, edits, 1)
  /\ before' = document
  /\ passes' = passes + 1
  /\ pc' = "edited"
  /\ UNCHANGED <<tabWidth, indentLevel, diagnostics, astBuilder_diagnostics, edits, host>>

\* validateDocument of astBuilder.ts tokenizes the document and scans the
\* tokens for floating values, unclosed strings and unbalanced brackets
astBuilder_TokenScan ==
  /\ pc = "edited"
  /\ astBuilder_diagnostics' = astBuilder_tokenDiagnostics(document)
  /\ pc' = "scanned"
  /\ UNCHANGED <<document, tabWidth, indentLevel, diagnostics, edits, before, passes, host>>

Next == Validate \/ Format \/ ApplyEdits \/ astBuilder_TokenScan

Spec == Init /\ [][Next]_vars

(***************************************************************************)
(* Documents that vary in structure instead of indentation: every          *)
(* combination of header, close and property lines, a commented-out        *)
(* header and a close line followed by a comment.                          *)
(***************************************************************************)
\* longest document of the structural exploration
MaxStructLines == 4

CommentedHeader == <<"/", "/">> \o HeaderA

EndWithComment == StructEnd \o <<" ", "/", "/">>

StructLines == {HeaderA, StructEnd, PropX, CommentedHeader, EndWithComment}

StructDocs == SeqsUpTo(StructLines, MaxStructLines)

InitStruct == InitWith(StructDocs, {2}, {2})

SpecStruct == InitStruct /\ [][Next]_vars

(***************************************************************************)
(* Documents that vary character by character: one line of quotes,         *)
(* letters, slashes, '=' and blanks, or two lines of braces and brackets.  *)
(***************************************************************************)
\* longest line of the character-level exploration
MaxChars == 4

\* longest line of a two-line bracket document
MaxBracketChars == 2

LexChars == {"'", "\"", "a", "/", " ", "="}

NumChars == {"1", ".", "-", "f", "\t"}

BracketChars == {"{", "}", "[", "]"}

LexDocs ==
  {<<line>> : line \in SeqsUpTo(LexChars, MaxChars)}
  \cup {<<line>> : line \in SeqsUpTo(BracketChars, MaxChars)}
  \cup {<<line>> : line \in SeqsUpTo(NumChars, MaxChars)}
  \cup (SeqsUpTo(BracketChars, MaxBracketChars) \X SeqsUpTo(BracketChars, MaxBracketChars))

InitLex == InitWith(LexDocs, {2}, {2})

SpecLex == InitLex /\ [][Next]_vars

(***************************************************************************)
(* Documents that vary in the content of a block: a header, up to          *)
(* MaxRuleLines content lines and a close, all unindented; and two content *)
(* lines spread over a block and a block nested in it or following it.     *)
(***************************************************************************)
\* most content lines of a block of the rule exploration
MaxRuleLines == 3

ArrOne == <<"a", "r", "r", "[", "1", "]", " ", "=", " ", "v">>

ArrZero == <<"a", "r", "r", "[", "0", "]", " ", "=", " ", "v">>

IdxOne == <<"[", "1", "]", " ", "=", " ", "v">>

Wildcard == <<"[", "*", "]", " ", "=", " ", "v">>

PropX2 == <<"x", " ", "=", " ", "2">>

FloatingColon == <<"'", "a", ":", "b", "'">>

BadKey == <<"x", "$", " ", "=", " ", "1">>

FloatingNum == <<"1">>

RuleLines ==
  {ArrOne, ArrZero, IdxOne, Wildcard, PropX, PropX2, BadKey,
   FloatingV, FloatingColon, FloatingNum}

RuleHeaders == {HeaderA}

\* headers with inline parameter text: Scenario 4, padded segments, no
\* segment at all, only a comma, and a missing closing brace
HeaderParams == HeaderA \o <<" ", "{", "x", "=", "1", ",", "y", "}">>

HeaderPadded == HeaderA \o <<" ", "{", " ", "y", " ", ",", " ", "x", " ", "=", " ", "1", " ", "}">>

HeaderNoParams == HeaderA \o <<" ", "{", "}">>

HeaderComma == HeaderA \o <<" ", "{", ",", "}">>

HeaderOpenBrace == HeaderA \o <<" ", "{", "x", "=", "1">>

ParamHeaders == {HeaderParams, HeaderPadded, HeaderNoParams, HeaderComma, HeaderOpenBrace}

RuleDocs ==
  {<<h>> \o body \o <<StructEnd>> : h \in RuleHeaders, body \in SeqsUpTo(RuleLines, MaxRuleLines)}
  \cup {<<h>> \o body \o <<StructEnd>> : h \in ParamHeaders, body \in SeqsUpTo(RuleLines, 1)}
  \cup {<<h, StructEnd>> : h \in ParamHeaders}
  \cup {<<HeaderA, l1, HeaderA, l2, StructEnd, StructEnd>> : l1, l2 \in RuleLines}
  \cup {<<HeaderA, l1, StructEnd, HeaderA, l2, StructEnd>> : l1, l2 \in RuleLines}

InitRules == InitWith(RuleDocs, {2}, {2})

SpecRules == InitRules /\ [][Next]_vars

(***************************************************************************)
(* Documents with lines the formatter must leave alone: every indentation  *)
(* of blocks holding blank and comment-only lines, of content at the top   *)
(* level and of a close without an open.                                   *)
(***************************************************************************)
BlankLine == << >>

CommentLine == <<"/", "/", "c">>

EditShapes ==
  {<<HeaderA, BlankLine, PropX, StructEnd>>,
   <<HeaderA, CommentLine, PropX, StructEnd>>,
   <<PropX, HeaderA, FloatingV, StructEnd>>,
   <<FloatingV, CommentLine, HeaderA, StructEnd>>,
   <<HeaderA, HeaderA, StructEnd, StructEnd>>,
   <<StructEnd, HeaderA, PropX, StructEnd>>}

EditDocs == UNION {Indented(bodies) : bodies \in EditShapes}

InitEdits == InitWith(EditDocs, TabWidths, IndentLevels)

SpecEdits == InitEdits /\ [][Next]_vars

(***************************************************************************)
(* Documents with parameter lines: every combination of header, close and  *)
(* property lines with a brace-only line, a lone opening brace and a lone  *)
(* closing brace, all unindented.                                          *)
(***************************************************************************)
\* longest document of the parameter exploration
MaxParamLines == 4

BraceLine == <<"{", "a", "}">>

OpenBrace == <<"{">>

CloseBrace == <<"}">>

ParamLines == {HeaderA, StructEnd, PropX, BraceLine, OpenBrace, CloseBrace}

ParamDocs == SeqsUpTo(ParamLines, MaxParamLines)

InitParams == InitWith(ParamDocs, {2}, {2})

SpecParams == InitParams /\ [][Next]_vars

(***************************************************************************)
(* Documents with array elements: one block holding up to MaxArrayLines    *)
(* properties with bracketed index keys, the wildcard key or a plain key.  *)
(***************************************************************************)
\* most content lines of a block of the array exploration
MaxArrayLines == 3

IdxZero == <<"[", "0", "]", " ", "=", " ", "v">>

IdxThree == <<"[", "3", "]", " ", "=", " ", "v">>

ArrayLines == {IdxZero, IdxOne, IdxThree, Wildcard, PropX}

ArrayDocs == {<<HeaderA>> \o body \o <<StructEnd>> : body \in SeqsUpTo(ArrayLines, MaxArrayLines)}

InitArrays == InitWith(ArrayDocs, {2}, {2})

SpecArrays == InitArrays /\ [][Next]_vars

(***************************************************************************)
(* extension.ts: activate registers the diagnostics handlers.  A text      *)
(* change arms one shared timer; a change of the active editor validates   *)
(* at once.  Time is counted in milliseconds; a timer's callback runs when *)
(* its delay has passed.                                                   *)
(***************************************************************************)
\* the delay handed to setTimeout
Debounce == 300

\* /\.cfg$/i.test(path)
IsCfgPath(path) ==
  /\ Len(path) >= 4
  /\ path[Len(path) - 3] = "."
  /\ path[Len(path) - 2] \in {"c", "C"}
  /\ path[Len(path) - 1] \in {"f", "F"}
  /\ path[Len(path)] \in {"g", "G"}

\* texts of the open documents: an unclosed block and a closed one
HostTexts == {<<HeaderA>>, <<HeaderA, StructEnd>>}

\* getTabWidth() and getIndentLevel() in the host
HostSettings == {2}

\* validateDocument(document, tabWidth, indentLevel), tabulated for the texts
\* and settings of the host
validations ==
  [text \in HostTexts, tw \in HostSettings, step \in HostSettings |->
     validateDocument(text, tw, step)]

\* updateDiagnostics(document): the collection after
\* diagnosticCollection.set(document.uri, ...) for the document at path
updateDiagnostics(collection, path, text, tw, step) ==
  (path :> (IF IsCfgPath(path) THEN validations[text, tw, step] ELSE << >>)) @@ collection

\* the change handler without its clearTimeout: the pending timer stays
clearTimeout_kept(pending, handle) == pending

\* clearTimeout(handle): the pending timers without the one of the handle
clearTimeout(pending, handle) == {t \in pending : t.id # handle}

\* setTimeout(() => updateDiagnostics(e.document), 300): the timer created
setTimeout(id, path, now) == [id |-> id, path |-> path, due |-> now + Debounce]

\* most text-change events of one run
MaxEvents == 2

\* the time up to which the host is observed, in ms
MaxTime == 500

\* longest stretch of time that passes in one step, in ms
TimeStep == 100

CfgLower == <<"a", ".", "c", "f", "g">>

CfgUpper == <<"b", ".", "C", "F", "G">>

TextFile == <<"n", ".", "t", "x", "t">>

HostPaths == {CfgLower, CfgUpper, TextFile}

\* vscode.window.activeTextEditor is undefined
NoEditor == << >>

\* after activate: the documents are open, the active editor's document, if
\* there is one, has been validated, and no timer has been armed
InitHost ==
  /\ document = NoDocument
  /\ tabWidth \in HostSettings
  /\ indentLevel \in HostSettings
  /\ diagnostics = << >>
  /\ astBuilder_diagnostics = << >>
  /\ edits = << >>
  /\ before = NoDocument
  /\ passes = 0
  /\ pc = "edited"
  /\ contents = [path \in HostPaths |-> <<HeaderA>>]
  /\ \E active \in HostPaths \cup {NoEditor} :
       published = IF active = NoEditor THEN << >>
                   ELSE updateDiagnostics(<< >>, active, contents[active], tabWidth, indentLevel)
  /\ diagnosticTimeout = 0
  /\ timers = {}
  /\ clock = 0
  /\ events = 0
  /\ lastEvent = << >>
  /\ runs = 0
  /\ dirty = {}

\* onDidChangeTextDocument: the text of a document changes; the pending
\* timer is cleared and a new one is armed for the changed document
TextChanged ==
  /\ events < MaxEvents
  /\ clock + Debounce <= MaxTime
  /\ \E path \in HostPaths, text \in HostTexts :
       /\ contents' = [contents EXCEPT ![path] = text]
       /\ timers' = (IF diagnosticTimeout # 0 THEN clearTimeout(timers, diagnosticTimeout)
                     ELSE timers)
                    \cup {setTimeout(events + 1, path, clock)}
       /\ diagnosticTimeout' = events + 1
       /\ lastEvent' = <<path, clock>>
       /\ dirty' = dirty \cup {path}
  /\ events' = events + 1
  /\ runs' = 0
  /\ UNCHANGED <<published, clock>>
  /\ UNCHANGED <<document, tabWidth, indentLevel, diagnostics, astBuilder_diagnostics,
                 edits, before, passes, pc>>

\* the callback of a timer whose delay has passed: updateDiagnostics for the
\* document of the event that armed it
TimerFires ==
  /\ \E t \in timers :
       /\ t.due <= clock
       /\ published' = updateDiagnostics(published, t.path, contents[t.path], tabWidth, indentLevel)
       /\ timers' = timers \ {t}
       /\ dirty' = dirty \ {t.path}
  /\ runs' = runs + 1
  /\ UNCHANGED <<contents, diagnosticTimeout, clock, events, lastEvent>>
  /\ UNCHANGED <<document, tabWidth, indentLevel, diagnostics, astBuilder_diagnostics,
                 edits, before, passes, pc>>

\* onDidChangeActiveTextEditor with an editor: its document is validated at once
ActiveEditorChanged ==
  /\ \E path \in HostPaths :
       /\ published' = updateDiagnostics(published, path, contents[path], tabWidth, indentLevel)
       /\ dirty' = dirty \ {path}
  /\ UNCHANGED <<contents, diagnosticTimeout, timers, clock, events, lastEvent, runs>>
  /\ UNCHANGED <<document, tabWidth, indentLevel, diagnostics, astBuilder_diagnostics,
                 edits, before, passes, pc>>

\* time passes, up to the moment the next timer is due
Tick ==
  /\ clock < MaxTime
  /\ \A t \in timers : t.due > clock
  /\ \E next \in (clock + 1)..MaxTime :
       /\ next <= clock + TimeStep
       /\ \A t \in timers : next <= t.due
       /\ \/ next = clock + TimeStep
          \/ next = MaxTime
          \/ \E t \in timers : next = t.due
       /\ clock' = next
  /\ UNCHANGED <<contents, published, diagnosticTimeout, timers, events, lastEvent, runs, dirty>>
  /\ UNCHANGED <<document, tabWidth, indentLevel, diagnostics, astBuilder_diagnostics,
                 edits, before, passes, pc>>

NextHost == TextChanged \/ TimerFires \/ ActiveEditorChanged \/ Tick

\* the event loop runs a timer whose delay has passed, and time passes
SpecHost == InitHost /\ [][NextHost]_vars /\ WF_vars(TimerFires) /\ WF_vars(Tick)

(***************************************************************************)
(* Properties                                                              *)
(***************************************************************************)
\* number of positions of a sequence that satisfy a predicate
Count(seq, P(_)) == Cardinality({k \in 1..Len(seq) : P(seq[k])})

\* a line the grammar reads as a block header, resp. as a block close
IsOpenLine(doc, i) == ~IsSkippedLine(doc[i]) /\ headerRegexTest(doc[i])

IsCloseLine(doc, i) == ~IsSkippedLine(doc[i]) /\ ~headerRegexTest(doc[i]) /\ IsStructEnd(doc[i])

NumOpen(doc, from, to) == Cardinality({i \in from..to : IsOpenLine(doc, i)})

NumClose(doc, from, to) == Cardinality({i \in from..to : IsCloseLine(doc, i)})

\* every close has an open before it and the totals agree
WellFormed(doc) ==
  /\ \A k \in 1..Len(doc) : NumClose(doc, 1, k) <= NumOpen(doc, 1, k)
  /\ NumClose(doc, 1, Len(doc)) = NumOpen(doc, 1, Len(doc))

\* the lines after header h up to which the closes outnumber the opens
ClosesFor(doc, h) == {e \in (h + 1)..Len(doc) : NumClose(doc, h + 1, e) > NumOpen(doc, h + 1, e)}

\* the close line nesting pairs with the header on line h, 0 if none
MatchingClose(doc, h) ==
  IF ClosesFor(doc, h) = {} THEN 0
  ELSE CHOOSE e \in ClosesFor(doc, h) : \A e2 \in ClosesFor(doc, h) : e <= e2

RECURSIVE OpenDepth(_, _)
\* number of blocks open after the first k lines
OpenDepth(doc, k) ==
  IF k = 0 THEN 0
  ELSE IF IsOpenLine(doc, k) THEN OpenDepth(doc, k - 1) + 1
  ELSE IF IsCloseLine(doc, k) /\ OpenDepth(doc, k - 1) > 0 THEN OpenDepth(doc, k - 1) - 1
  ELSE OpenDepth(doc, k - 1)

\* the tree validateDocument and formatDocument build for the document
CurrentAst == buildAST(document, tabWidth, indentLevel)

\* indentation of line i of the document, in columns
IndentOf(i) == countIndentFromText(document[i], tabWidth)

\* the formatter's edits have just been applied to a document that had no
\* Error diagnostic
JustFormatted == passes >= 1 /\ pc = "edited" /\ ~HasError(diagnostics)

\* C1: whenever validateDocument reports a diagnostic of Error severity for a
\* document, formatDocument returns no edits for it.
C1_SafetyGate == (pc = "formatted" /\ HasError(diagnostics)) => edits = << >>

\* a gated document the walk would have edited
C1_Witness ==
  /\ pc = "formatted"
  /\ HasError(diagnostics)
  /\ edits = << >>
  /\ formatDocument_ungated(document, indentLevel, tabWidth) # << >>

\* C2: formatting is idempotent: once the edits of a pass are applied, the
\* next pass returns no edits.
C2_Idempotent == (passes >= 1 /\ pc = "formatted") => edits = << >>

\* C3: for a well-formed document buildAST yields no orphan End node and no
\* unclosed Block, one Block per header line, and each Block's endLine is the
\* close line nesting pairs with its header.
C3_WellFormedPairs ==
  (pc = "validated" /\ WellFormed(document)) =>
    /\ \A n \in 1..Len(CurrentAst) :
         /\ CurrentAst[n].type # "End"
         /\ CurrentAst[n].type = "Block" =>
              /\ CurrentAst[n].endLine # 0
              /\ CurrentAst[n].endLine = MatchingClose(document, CurrentAst[n].startLine)
    /\ \A i \in 1..Len(document) :
         IsOpenLine(document, i) =>
           \E n \in 1..Len(CurrentAst) :
             CurrentAst[n].type = "Block" /\ CurrentAst[n].startLine = i

\* a well-formed document with a block nested in another
C3_Witness ==
  /\ pc = "validated"
  /\ WellFormed(document)
  /\ \E n \in 1..Len(CurrentAst) :
       /\ CurrentAst[n].type = "Block"
       /\ CurrentAst[n].parent # 0
       /\ CurrentAst[n].endLine # 0
       /\ CurrentAst[CurrentAst[n].parent].endLine > CurrentAst[n].endLine

\* the 'was not closed' diagnostics on one line
IsNotClosedDiag(d) == d.message = MsgNotClosed

NotClosedErrors(line, name) ==
  Count(diagnostics, LAMBDA d : d = Diag(line, 0, MsgNotClosed, Error, <<name>>))

\* C4: validateDocument emits exactly one 'was not closed' Error on the header
\* line of each Block whose endLine is unset, one per header left open at the
\* end of the document, and none for a Block whose endLine is set.
C4_UnclosedFlagged ==
  pc = "validated" =>
    /\ \A n \in 1..Len(CurrentAst) :
         CurrentAst[n].type = "Block" =>
           NotClosedErrors(CurrentAst[n].startLine, CurrentAst[n].name)
             = IF CurrentAst[n].endLine = 0 THEN 1 ELSE 0
    /\ Count(diagnostics, IsNotClosedDiag) = OpenDepth(document, Len(document))

\* a document with a closed block and, around it, an unclosed one
C4_Witness ==
  /\ pc = "validated"
  /\ \E n, m \in 1..Len(CurrentAst) :
       /\ CurrentAst[n].type = "Block" /\ CurrentAst[n].endLine = 0
       /\ CurrentAst[m].type = "Block" /\ CurrentAst[m].endLine # 0
       /\ CurrentAst[m].parent = n
  /\ Count(diagnostics, IsNotClosedDiag) = 1

OrphanErrors(line) ==
  Count(diagnostics, LAMBDA d : d = Diag(line, 0, MsgOrphanEnd, Error, << >>))

C6_ChildIndent ==
  JustFormatted =>
    \A n \in 1..Len(CurrentAst) :
      (CurrentAst[n].type \in {"Property", "Invalid"} /\ CurrentAst[n].parent # 0) =>
        IndentOf(CurrentAst[n].startLine)
          = IndentOf(CurrentAst[CurrentAst[n].parent].startLine) + indentLevel

\* C7: after a formatting pass every closed Block's close line is indented as
\* its header line, and every header line sits at its parent's header indent
\* plus the indent step (0 for a root-level block).
C7_HeaderCloseAligned ==
  JustFormatted =>
    \A n \in 1..Len(CurrentAst) :
      CurrentAst[n].type = "Block" =>
        /\ CurrentAst[n].endLine # 0 =>
             IndentOf(CurrentAst[n].endLine) = IndentOf(CurrentAst[n].startLine)
        /\ IndentOf(CurrentAst[n].startLine)
             = IF CurrentAst[n].parent = 0 THEN 0
               ELSE IndentOf(CurrentAst[CurrentAst[n].parent].startLine) + indentLevel

\* the lines the formatter is responsible for: block headers, Property and
\* Invalid lines inside a block, and matched close lines
FormattedLines ==
  {CurrentAst[n].startLine : n \in {m \in 1..Len(CurrentAst) : CurrentAst[m].type = "Block"}}
  \cup {CurrentAst[n].endLine :
          n \in {m \in 1..Len(CurrentAst) :
                   CurrentAst[m].type = "Block" /\ CurrentAst[m].endLine # 0}}
  \cup {CurrentAst[n].startLine :
          n \in {m \in 1..Len(CurrentAst) :
                   CurrentAst[m].type \in {"Property", "Invalid"} /\ CurrentAst[m].parent # 0}}

\* C8: after a formatting pass the leading whitespace of every header line,
\* every Property or Invalid line inside a block and every matched close line
\* holds no tab.
C8_NoTabs ==
  JustFormatted =>
    \A i \in FormattedLines : \A k \in 1..LeadWs(document[i]) : document[i][k] # "\t"

\* the brace and bracket tokens of the document, in scan order
BracketTokens ==
  SelectSeq(Flatten(tokenize(document), 1),
            LAMBDA t : t.type \in {"LBRACE", "RBRACE", "LBRACKET", "RBRACKET"})

Opener(type) == IF type = "RBRACE" THEN "LBRACE" ELSE "LBRACKET"

RECURSIVE OpenAfter(_)
\* the positions in BracketTokens of the openers on the stack after the first
\* k bracket tokens: a closer removes the top if it is its opener, and is
\* otherwise left out
OpenAfter(k) ==
  IF k = 0 THEN << >>
  ELSE LET prev == OpenAfter(k - 1)
           t    == BracketTokens[k]
       IN  IF t.type \in {"LBRACE", "LBRACKET"} THEN Append(prev, k)
           ELSE IF Len(prev) > 0 /\ BracketTokens[prev[Len(prev)]].type = Opener(t.type)
           THEN SubSeq(prev, 1, Len(prev) - 1)
           ELSE prev

\* closer k meets an empty stack or an opener of the other kind
Unexpected(k) ==
  /\ BracketTokens[k].type \in {"RBRACE", "RBRACKET"}
  /\ OpenAfter(k) = OpenAfter(k - 1)

LeftOpen == {OpenAfter(Len(BracketTokens))[j] : j \in 1..Len(OpenAfter(Len(BracketTokens)))}

BracketMessages ==
  {MsgUnexpectedBrace, MsgUnexpectedBracket, MsgUnclosedBrace, MsgUnclosedBracket}

\* the diagnostics of a set of messages that sit on a token
DiagsAt(diags, t, messages) ==
  Count(diags, LAMBDA d : d.line = t.line /\ d.character = t.start /\ d.message \in messages)

ErrorsAt(diags, t, messages) ==
  Count(diags, LAMBDA d : /\ d.line = t.line /\ d.character = t.start
                          /\ d.message \in messages /\ d.severity = Error)

\* C9: over the document's brace and bracket tokens, every closer that meets
\* an empty stack or an opener of the other kind gets one Error, every opener
\* left on the stack at the end gets one diagnostic of Error severity naming
\* its kind, and no other bracket diagnostic is reported.
C9_BracketBalance ==
  pc = "validated" =>
    /\ \A k \in 1..Len(BracketTokens) :
         LET t == BracketTokens[k]
         IN  /\ Unexpected(k) =>
                  ErrorsAt(diagnostics, t,
                           {IF t.type = "RBRACE" THEN MsgUnexpectedBrace
                                                 ELSE MsgUnexpectedBracket}) = 1
             /\ k \in LeftOpen =>
                  ErrorsAt(diagnostics, t,
                           {IF t.type = "LBRACE" THEN MsgUnclosedBrace
                                                 ELSE MsgUnclosedBracket}) = 1
             /\ DiagsAt(diagnostics, t, BracketMessages)
                  = IF Unexpected(k) \/ k \in LeftOpen THEN 1 ELSE 0
    /\ Count(diagnostics, LAMBDA d : d.message \in BracketMessages)
         = Cardinality({k \in 1..Len(BracketTokens) : Unexpected(k) \/ k \in LeftOpen})

\* the validator has reported on a document with an opener that is never
\* closed
C9_Witness ==
  /\ pc = "validated"
  /\ LeftOpen # {}
  /\ Count(diagnostics, LAMBDA d : d.message \in {MsgUnclosedBrace, MsgUnclosedBracket}) >= 1

\* the string tokens of the document
StringTokens ==
  SelectSeq(Flatten(tokenize(document), 1),
            LAMBDA t : t.type \in {"STRING", "DOUBLE_STRING"})

RECURSIVE QuoteRun(_, _, _)
\* length of the run of quote characters q that ends text, position 1 left out
QuoteRun(text, k, q) ==
  IF k < 2 \/ text[k] # q THEN 0 ELSE 1 + QuoteRun(text, k - 1, q)

\* the literal has a closing quote: after its opening quote it ends with an
\* odd run of quotes, the doubled ones being escapes
Terminated(t) == QuoteRun(t.text, Len(t.text), t.text[1]) % 2 = 1

\* C10: every string token without a closing quote has a text that does not
\* end with its quote and gets exactly one 'Unclosed string literal' Error;
\* a terminated literal gets none.
C10_UnterminatedString ==
  pc = "scanned" =>
    \A k \in 1..Len(StringTokens) :
      LET t == StringTokens[k]
      IN  IF Terminated(t)
          THEN DiagsAt(astBuilder_diagnostics, t, {MsgUnclosedString}) = 0
          ELSE /\ ~EndsWith(t.text, t.text[1])
               /\ ErrorsAt(astBuilder_diagnostics, t, {MsgUnclosedString}) = 1
               /\ DiagsAt(astBuilder_diagnostics, t, {MsgUnclosedString}) = 1

\* an unterminated literal the token scan has flagged
C10_Witness ==
  /\ pc = "scanned"
  /\ \E k \in 1..Len(StringTokens) :
       /\ ~Terminated(StringTokens[k])
       /\ ErrorsAt(astBuilder_diagnostics, StringTokens[k], {MsgUnclosedString}) = 1

\* column of the first '//' of a line, its length if there is none
FirstSlashes(line) ==
  LET at == {c \in 0..(Len(line) - 2) : line[c + 1] = "/" /\ line[c + 2] = "/"}
  IN  IF at = {} THEN Len(line) ELSE CHOOSE c \in at : \A c2 \in at : c <= c2

\* column col of the line lies in the span of one of the tokens
Covered(toks, col) == \E k \in 1..Len(toks) : toks[k].start <= col /\ col < toks[k].end

RECURSIVE Rejoin(_, _, _)
\* the token texts and the uncovered characters from column col on, joined
\* in position order
Rejoin(line, toks, col) ==
  IF col >= Len(line) THEN << >>
  ELSE IF \E k \in 1..Len(toks) : toks[k].start = col /\ toks[k].end > col
  THEN LET k == CHOOSE k \in 1..Len(toks) : toks[k].start = col /\ toks[k].end > col
       IN  toks[k].text \o Rejoin(line, toks, toks[k].end)
  ELSE IF Covered(toks, col) THEN Rejoin(line, toks, col + 1)
  ELSE <<line[col + 1]>> \o Rejoin(line, toks, col + 1)

LosslessLine(line, i, toks) ==
  /\ \A k \in 1..Len(toks) :
       /\ 0 <= toks[k].start /\ toks[k].start < toks[k].end /\ toks[k].end <= Len(line)
       /\ toks[k].text = SubSeq(line, toks[k].start + 1, toks[k].end)
       /\ toks[k].line = i
  /\ \A k \in 1..(Len(toks) - 1) : toks[k].end <= toks[k + 1].start
  /\ \A col \in 0..(FirstSlashes(line) - 1) :
       ~Covered(toks, col) => line[col + 1] \in {" ", "\t"}
  /\ FirstSlashes(line) < Len(line) =>
       /\ toks # << >>
       /\ toks[Len(toks)].type = "COMMENT"
       /\ toks[Len(toks)].start = FirstSlashes(line)
       /\ toks[Len(toks)].end = Len(line)
  /\ Rejoin(line, toks, 0) = line

\* C11: the tokens of every line have increasing, non-overlapping spans whose
\* text is the line's text there, leave only blanks uncovered before the
\* first '//', end with a COMMENT token from the first '//' to the end of the
\* line when there is one, and rejoin to the line.
C11_TokenizerLossless ==
  pc = "validated" =>
    \A i \in 1..Len(document) : LosslessLine(document[i], i, tokenize(document)[i])

\* a line tokenized into a quoted literal, a blank and a comment
C11_Witness ==
  /\ pc = "validated"
  /\ \E i \in 1..Len(document) :
       LET toks == tokenize(document)[i]
       IN  /\ Len(toks) >= 2
           /\ toks[1].type \in {"STRING", "DOUBLE_STRING"}
           /\ toks[Len(toks)].type = "COMMENT"
           /\ \E col \in 0..(Len(document[i]) - 1) : ~Covered(toks, col)

\* Scenario 1: a closed root block with one property, all lines at indent 0
Scenario1 == <<HeaderA, PropX, StructEnd>>

Scenario1Formatted ==
  document = Scenario1 /\ indentLevel = 2 /\ passes = 0 /\ pc = "formatted"

\* the one edit that sets line 2's leading whitespace to two spaces
IndentPropertyEdit == <<TextEdit(2, 0, Spaces(2))>>

\* C12: for Scenario 1 with indent step 2 validateDocument returns no
\* diagnostics and formatDocument returns exactly one edit, which sets the
\* property line's leading whitespace to 2 spaces.
C12_Scenario1 ==
  Scenario1Formatted => (diagnostics = << >> /\ edits = IndentPropertyEdit)

\* C12 as amended: for Scenario 1 with indent step 2 validateDocument returns
\* exactly one diagnostic, the content-indentation Warning on the property
\* line, and formatDocument returns exactly one edit, which sets the property
\* line's leading whitespace to 2 spaces.
C12_Scenario1Amended ==
  Scenario1Formatted =>
    /\ diagnostics = <<Diag(2, 0, MsgContentIndent, Warning, <<<<"A">>, 2, 0>>)>>
    /\ edits = IndentPropertyEdit

\* Scenario 1 has been validated and formatted
C12_Witness == Scenario1Formatted /\ Len(edits) = 1 /\ Len(diagnostics) = 1

\* position of the '[' that opens the index of a key name[i] with a name of
\* at least one character, 0 if the key has not that form
IndexOpen(key) ==
  LET at == {p \in 2..(Len(key) - 2) :
               /\ key[p] = "["
               /\ key[Len(key)] = "]"
               /\ \A q \in (p + 1)..(Len(key) - 1) : key[q] \in Digits}
  IN  IF at = {} THEN 0 ELSE CHOOSE p \in at : TRUE

ArrayName(key) == SubSeq(key, 1, IndexOpen(key) - 1)

ArrayIndex(key) == NumberValue(SubSeq(key, IndexOpen(key) + 1, Len(key) - 1))

\* the Property children of block b whose key has the form name[i]
ArrayChildren(b) ==
  SelectSeq(Children(CurrentAst, b),
            LAMBDA n : CurrentAst[n].type = "Property" /\ IndexOpen(CurrentAst[n].key) > 0)

\* C13: inside a block, a property with key name[i] that follows a sibling
\* name[j] with j > i gets exactly one out-of-order Warning on its line.
C13_ArrayOrder ==
  pc = "validated" =>
    \A b \in 1..Len(CurrentAst) :
      CurrentAst[b].type = "Block" =>
        \A j \in 2..Len(ArrayChildren(b)) :
          LET prev == CurrentAst[ArrayChildren(b)[j - 1]]
              this == CurrentAst[ArrayChildren(b)[j]]
          IN  (ArrayName(prev.key) = ArrayName(this.key)
               /\ ArrayIndex(this.key) < ArrayIndex(prev.key)) =>
                Count(diagnostics,
                      LAMBDA d : d = Diag(this.startLine, 0, MsgOutOfOrder, Warning, << >>)) = 1

\* the line is one quoted literal: a quote, characters other than that
\* quote, and the same quote again
IsQuotedLiteral(text) ==
  /\ Len(text) >= 2
  /\ text[1] \in {"'", "\""}
  /\ text[Len(text)] = text[1]
  /\ \A k \in 2..(Len(text) - 1) : text[k] # text[1]

\* the line is one unsigned integer literal
IsIntegerLiteral(text) == text # << >> /\ \A k \in 1..Len(text) : text[k] \in Digits

\* the line assigns to an index placeholder: [n] = ...
IsIndexAssignment(text) ==
  \E e \in 1..Len(text) :
    /\ text[e] = "="
    /\ LET key == Trim(SubSeq(text, 1, e - 1))
       IN  /\ Len(key) >= 3
           /\ key[1] = "[" /\ key[Len(key)] = "]"
           /\ \A k \in 2..(Len(key) - 1) : key[k] \in Digits

FloatingWarnings(line, messages) ==
  Count(diagnostics,
        LAMBDA d : d.line = line /\ d.message \in messages /\ d.severity = Warning)

\* C14: inside a block, a line that is only a terminated quoted literal gets
\* exactly one floating-string Warning whatever the literal holds, a line that
\* is only a numeric literal gets exactly one floating-number Warning, and a
\* line assigning to [n] gets neither.
C14_FloatingLiterals ==
  pc = "validated" =>
    \A i \in 1..Len(document) :
      OpenDepth(document, i - 1) > 0 =>
        /\ IsQuotedLiteral(Trim(document[i])) =>
             FloatingWarnings(i, {MsgFloatingString}) = 1
        /\ IsIntegerLiteral(Trim(document[i])) =>
             FloatingWarnings(i, {MsgFloatingNumber}) = 1
        /\ IsIndexAssignment(document[i]) =>
             FloatingWarnings(i, {MsgFloatingString, MsgFloatingNumber}) = 0

\* a block holding a quoted literal with a colon in it has been validated
C14_Witness ==
  /\ pc = "validated"
  /\ \E i \in 1..Len(document) :
       /\ OpenDepth(document, i - 1) > 0
       /\ IsQuotedLiteral(Trim(document[i]))
       /\ Includes(document[i], ":")

\* the warning of the parameter-shape rule
MsgMalformedParams == "Malformed parameters for block <name>. <hint>"

\* the text of a header line after struct.begin, trimmed
ParamText(line) ==
  LET j == CHOOSE j \in 0..Len(line) : StartsWithAt(line, j, StructBegin)
  IN  Trim(SubSeq(line, j + Len(StructBegin) + 1, Len(line)))

\* the text between the braces of {s1, ..., sn}
Braced(text) == Len(text) >= 2 /\ text[1] = "{" /\ text[Len(text)] = "}"

\* the trimmed comma-separated segments of the text between the braces
Segments(text) ==
  LET inner == SubSeq(text, 2, Len(text) - 1)
      IsCut(k) == k = 0 \/ k = Len(inner) + 1 \/ inner[k] = ","
  IN  {Trim(SubSeq(inner, a + 1, b - 1)) :
         <<a, b>> \in {<<a, b>> \in (0..Len(inner)) \X (1..(Len(inner) + 1)) :
                      /\ a < b /\ IsCut(a) /\ IsCut(b)
                      /\ \A k \in (a + 1)..(b - 1) : ~IsCut(k)}} \ {<< >>}

\* the first '=' of a segment, 0 if it has none
FirstEqual(seg) ==
  IF Includes(seg, "=")
  THEN CHOOSE e \in 1..Len(seg) : seg[e] = "=" /\ \A k \in 1..(e - 1) : seg[k] # "="
  ELSE 0

\* the mapping holds what the segment says: k -> v for k=v, k -> true for k
SegmentParsed(params, seg) ==
  LET e == FirstEqual(seg)
      k == IF e = 0 THEN seg ELSE Trim(SubSeq(seg, 1, e - 1))
      v == IF e = 0 THEN <<"t", "r", "u", "e">> ELSE Trim(SubSeq(seg, e + 1, Len(seg)))
  IN  e # 1 => (params.defined /\ k \in DOMAIN params.map /\ params.map[k] = v)

MalformedWarnings(line) ==
  Count(diagnostics,
        LAMBDA d : d.line = line /\ d.message = MsgMalformedParams /\ d.severity = Warning)

\* C15: the mapping parsed from a header's inline {s1, ..., sn} holds k -> v
\* for each segment k=v and k -> "true" for each bare key; a header with a
\* parsed segment gets no malformed-parameter warning, and a header whose
\* parameter text gives no pair or lacks a brace gets one Warning.
C15_HeaderParams ==
  pc = "validated" =>
    \A b \in 1..Len(CurrentAst) :
      (CurrentAst[b].type = "Block" /\ ParamText(document[CurrentAst[b].startLine]) # << >>) =>
        LET text   == ParamText(document[CurrentAst[b].startLine])
            params == CurrentAst[b].params
            line   == CurrentAst[b].startLine
        IN  /\ Braced(text) => \A seg \in Segments(text) : SegmentParsed(params, seg)
            /\ (Braced(text) /\ Segments(text) # {}) => MalformedWarnings(line) = 0
            /\ (~Braced(text) \/ Segments(text) = {}) => MalformedWarnings(line) = 1

\* Scenario 4 has been validated: {x=1,y} parsed to x -> 1, y -> true
C15_Witness ==
  /\ pc = "validated"
  /\ document[1] = HeaderParams
  /\ CurrentAst[1].params = [defined |-> TRUE,
                             map |-> (<<"x">> :> <<"1">>) @@ (<<"y">> :> <<"t", "r", "u", "e">>)]

\* the findings of the shape and style kinds: indentation, naming, duplicate
\* keys, malformed parameters, array ordering and floating literals
ShapeMessages ==
  {MsgHeaderIndent, MsgContentIndent, MsgBlockName, MsgPropertyKey, MsgDuplicateKey,
   MsgMalformedParams, MsgOutOfOrder, MsgFloatingString, MsgFloatingNumber}

OnlyShapeFindings ==
  /\ diagnostics # << >>
  /\ \A k \in 1..Len(diagnostics) : diagnostics[k].message \in ShapeMessages

\* a line the formatter is responsible for is not at its canonical indent
NeedsRepair ==
  \E n \in 1..Len(CurrentAst) :
    LET node == CurrentAst[n]
        home == IF node.parent = 0 THEN 0
                ELSE IndentOf(CurrentAst[node.parent].startLine) + indentLevel
    IN  \/ node.type = "Block" /\ IndentOf(node.startLine) # home
        \/ node.type = "Block" /\ node.endLine # 0
             /\ IndentOf(node.endLine) # IndentOf(node.startLine)
        \/ node.type \in {"Property", "Invalid"} /\ node.parent # 0
             /\ IndentOf(node.startLine) # home

NestedBlocks ==
  {n \in 1..Len(CurrentAst) : CurrentAst[n].type = "Block" /\ CurrentAst[n].parent # 0}

\* the indent a nested header must at least have: its parent's header indent
\* plus the indent step
RequiredHeaderIndent(n) == IndentOf(CurrentAst[CurrentAst[n].parent].startLine) + indentLevel

HeaderIndentDiags(n, severities) ==
  Count(diagnostics,
        LAMBDA d : /\ d.line = CurrentAst[n].startLine
                   /\ d.message = MsgHeaderIndent
                   /\ d.severity \in severities)

LineKey(i) == Trim(SubSeq(document[i], 1, FirstEqual(document[i]) - 1))

\* Property n repeats the key of an earlier direct Property child of its block
RepeatsKey(n) ==
  /\ CurrentAst[n].type = "Property"
  /\ CurrentAst[n].parent # 0
  /\ LineKey(CurrentAst[n].startLine) # <<"[", "*", "]">>
  /\ \E m \in 1..(n - 1) :
       /\ CurrentAst[m].type = "Property"
       /\ CurrentAst[m].parent = CurrentAst[n].parent
       /\ LineKey(CurrentAst[m].startLine) = LineKey(CurrentAst[n].startLine)

DuplicateWarnings(line) ==
  Count(diagnostics, LAMBDA d : d.line = line /\ d.message = MsgDuplicateKey)

\* C18: validateDocument emits exactly one duplicate-key Warning on the line
\* of each Property that repeats the key of an earlier direct Property child
\* of the same block, none for the key '[*]', none for a key reused in another
\* block, and no other duplicate-key diagnostic.
C18_DuplicateKeys ==
  pc = "validated" =>
    /\ \A n \in 1..Len(CurrentAst) :
         CurrentAst[n].type = "Property" =>
           /\ DuplicateWarnings(CurrentAst[n].startLine) = IF RepeatsKey(n) THEN 1 ELSE 0
           /\ Count(diagnostics,
                    LAMBDA d : /\ d.line = CurrentAst[n].startLine
                               /\ d.message = MsgDuplicateKey
                               /\ d.severity # Warning) = 0
    /\ Count(diagnostics, LAMBDA d : d.message = MsgDuplicateKey)
         = Cardinality({n \in 1..Len(CurrentAst) : RepeatsKey(n)})

\* a block with three properties of one key has been validated: two warnings
C18_Witness ==
  /\ pc = "validated"
  /\ \E n, m \in 1..Len(CurrentAst) :
       n # m /\ RepeatsKey(n) /\ RepeatsKey(m) /\ CurrentAst[n].parent = CurrentAst[m].parent
  /\ Count(diagnostics, LAMBDA d : d.message = MsgDuplicateKey) = 2

\* the nearest non-blank line after, resp. before, line i; 0 if there is none
NextNonBlank(i) ==
  LET after == {j \in (i + 1)..Len(document) : Trim(document[j]) # << >>}
  IN  IF after = {} THEN 0 ELSE CHOOSE j \in after : \A j2 \in after : j <= j2

PrevNonBlank(i) ==
  LET prior == {j \in 1..(i - 1) : Trim(document[j]) # << >>}
  IN  IF prior = {} THEN 0 ELSE CHOOSE j \in prior : \A j2 \in prior : j >= j2

\* the three cases: a header follows, nothing follows, a struct.end precedes
BeforeHeader(i) == NextNonBlank(i) # 0 /\ headerRegexTest(document[NextNonBlank(i)])

AtEndOfFile(i) == NextNonBlank(i) = 0

AfterEnd(i) == PrevNonBlank(i) # 0 /\ Trim(document[PrevNonBlank(i)]) = StructEnd

Suppressible(i) == BeforeHeader(i) \/ AtEndOfFile(i) \/ AfterEnd(i)

EndNodes == {n \in 1..Len(CurrentAst) : CurrentAst[n].type = "End"}

C20_Containment ==
  pc = "validated" =>
    \A c \in 1..Len(CurrentAst) :
      CurrentAst[c].parent # 0 =>
        LET B == CurrentAst[CurrentAst[c].parent]
            C == CurrentAst[c]
        IN  /\ B.type = "Block"
            /\ B.startLine < C.startLine
            /\ B.endLine # 0 => C.startLine < B.endLine
            /\ (C.type = "Block" /\ C.endLine # 0 /\ B.endLine # 0) => C.endLine <= B.endLine

\* a closed block with a property, nested in a block that stays open
C20_Witness ==
  /\ pc = "validated"
  /\ \E b, c, q \in 1..Len(CurrentAst) :
       /\ CurrentAst[b].type = "Block" /\ CurrentAst[b].endLine = 0
       /\ CurrentAst[c].type = "Block" /\ CurrentAst[c].parent = b /\ CurrentAst[c].endLine # 0
       /\ CurrentAst[q].type = "Property" /\ CurrentAst[q].parent = c

ContentIndentDiags(line, severities) ==
  Count(diagnostics,
        LAMBDA d : d.line = line /\ d.message = MsgContentIndent /\ d.severity \in severities)

ContentKinds == {"Property", "Invalid", "End"}

\* C23: a Property, Invalid or End node that is a direct child of a Block and
\* is indented less than the block's header indent plus the indent step gets
\* exactly one content-indentation Warning and no such Error on its line; a
\* node at or above that indent gets no content-indentation diagnostic.
C23_ContentIndent ==
  pc = "validated" =>
    \A n \in 1..Len(CurrentAst) :
      (CurrentAst[n].type \in ContentKinds /\ CurrentAst[n].parent # 0) =>
        LET required == CurrentAst[CurrentAst[n].parent].indent + indentLevel
            line     == CurrentAst[n].startLine
        IN  /\ ContentIndentDiags(line, {Error}) = 0
            /\ ContentIndentDiags(line, {Warning}) =
                 IF CurrentAst[n].indent < required THEN 1 ELSE 0

\* a floating literal indented less than its block requires has been validated
C23_Witness ==
  /\ pc = "validated"
  /\ \E n \in 1..Len(CurrentAst) :
       /\ CurrentAst[n].type = "Invalid" /\ CurrentAst[n].parent # 0
       /\ CurrentAst[n].indent < CurrentAst[CurrentAst[n].parent].indent + indentLevel

\* the edits formatDocument returned that touch line i
EditsOf(i) == {k \in 1..Len(edits) : edits[k].line = i}

\* a line that starts with "//" after its leading whitespace
IsCommentOnly(i) == StartsWithAt(Trim(document[i]), 0, <<"/", "/">>)

\* a line at the top level of the document that is not a block header
IsRootContent(i) == OpenDepth(document, i - 1) = 0 /\ ~IsOpenLine(document, i)

\* C30: every edit formatDocument returns replaces exactly the leading
\* whitespace of one line by a run of spaces; a line is edited only if its
\* measured indent differs from the indent the edit gives it; no line gets
\* two edits; blank lines, comment-only lines, orphan close lines and
\* top-level lines other than block headers get no edit.
C30_EditShape ==
  pc = "formatted" =>
    /\ \A k \in 1..Len(edits) :
         LET e == edits[k] IN
         /\ e.line \in 1..Len(document)
         /\ e.endChar = firstNonWhitespaceCharacterIndex(document[e.line])
         /\ e.newText = Spaces(Len(e.newText))
         /\ IndentOf(e.line) # Len(e.newText)
    /\ \A i \in 1..Len(document) :
         /\ Cardinality(EditsOf(i)) <= 1
         /\ (Trim(document[i]) = << >> \/ IsCommentOnly(i) \/ IsRootContent(i)) =>
              EditsOf(i) = {}

\* edits were returned for a document that also holds a blank line, a
\* comment-only line or a top-level content line
C30_Witness ==
  /\ pc = "formatted"
  /\ edits # << >>
  /\ \E i \in 1..Len(document) :
       Trim(document[i]) = << >> \/ IsCommentOnly(i) \/ IsRootContent(i)

\* trailing comments appended to a line: plain text, text with ':' and with '='
TrailingComments ==
  {<<" ", "/", "/", " ", "n">>,
   <<" ", "/", "/", " ", "a", ":", "b">>,
   <<" ", "/", "/", " ", "a", "=", "b">>}

HasComment(text) == CommentIndex(text) >= 0

\* the document with comment c appended to line i
WithComment(i, c) == [document EXCEPT ![i] = document[i] \o c]

\* two trees classify and pair the lines alike: the same nodes of the same
\* kind on the same lines, with the same parent and the same close line
SameStructure(a, b) ==
  /\ Len(a) = Len(b)
  /\ \A n \in 1..Len(a) :
       /\ a[n].type = b[n].type
       /\ a[n].startLine = b[n].startLine
       /\ a[n].endLine = b[n].endLine
       /\ a[n].parent = b[n].parent

\* C25: appending a trailing comment to a line without "//" changes neither
\* the kind of node buildAST makes of any line nor the pairing of headers
\* and closes.
C25_CommentsInert ==
  pc = "validated" =>
    \A i \in 1..Len(document) : \A c \in TrailingComments :
      ~HasComment(document[i]) =>
        SameStructure(CurrentAst, buildAST(WithComment(i, c), tabWidth, indentLevel))

\* a validated document with a close line, without comment, inside an open block
C25_Witness ==
  /\ pc = "validated"
  /\ \E i \in 1..Len(document) :
       /\ ~HasComment(document[i])
       /\ IsCloseLine(document, i)
       /\ OpenDepth(document, i - 1) > 0

\* the tree validateDocument of astBuilder.ts builds for the document
astBuilder_CurrentAst == astBuilder_buildAST(document, tabWidth, indentLevel)

\* end of a block's span: its close line, or a line past the document
SpanEnd(b) == IF b.endLine = 0 THEN Len(document) + 1 ELSE b.endLine

SpanSize(b) == SpanEnd(b) - b.startLine

\* the blocks of a tree whose span holds node n: a line strictly inside the
\* span, a block that starts inside it and ends no later
Enclosing(ast, n) ==
  {p \in 1..Len(ast) :
     /\ p # n
     /\ ast[p].type = "Block"
     /\ ast[p].startLine < ast[n].startLine
     /\ ast[n].startLine < SpanEnd(ast[p])
     /\ ast[n].type = "Block" => SpanEnd(ast[n]) <= SpanEnd(ast[p])}

\* every node hangs under the smallest block that holds it, or under the root
SmallestEnclosingParents(ast) ==
  \A n \in 1..Len(ast) :
    IF Enclosing(ast, n) = {} THEN ast[n].parent = 0
    ELSE /\ ast[n].parent \in Enclosing(ast, n)
         /\ \A q \in Enclosing(ast, n) \ {ast[n].parent} :
              SpanSize(ast[ast[n].parent]) < SpanSize(ast[q])

astBuilder_FirstPass == astBuilder_firstPass(document, tabWidth, 1, astBuilder_start)

\* the lines the header look-ahead consumed as parameter text
ConsumedByHeaders == astBuilder_FirstPass.skipLines

\* line l is recorded as a block open, paired as a block close, recorded as
\* an orphan close, or has a node of its own in the tree
LineInterpreted(l) ==
  \/ \E k \in 1..Len(astBuilder_FirstPass.begins) :
       \/ astBuilder_FirstPass.begins[k].startLine = l
       \/ astBuilder_FirstPass.begins[k].endLine = l
  \/ \E k \in 1..Len(astBuilder_FirstPass.orphanEnds) : astBuilder_FirstPass.orphanEnds[k] = l
  \/ \E n \in 1..Len(astBuilder_CurrentAst) :
       \/ astBuilder_CurrentAst[n].startLine = l
       \/ astBuilder_CurrentAst[n].endLine = l

\* C22: a line the header look-ahead of the two-pass builder consumes as
\* parameter text is neither recorded as a block open, nor paired as a block
\* close, nor given a node of its own, whatever its text.
C22_ConsumedLinesInert ==
  pc = "scanned" => \A l \in ConsumedByHeaders : ~LineInterpreted(l)

\* a consumed parameter line that reads as a header or as a close
C22_Witness ==
  /\ pc = "scanned"
  /\ \E l \in ConsumedByHeaders :
       IsStructEnd(document[l]) \/ astBuilder_headerRegexTest(document[l])

\* begins and orphan closes of the two-pass builder after its heuristic pass
astBuilder_Recovered == astBuilder_recovery(document, tabWidth, astBuilder_FirstPass)

\* C26: in the two-pass builder every orphan close line precedes every
\* unclosed header line, the recovery loop finds no candidate for any orphan
\* close, and the orphan closes and all endLine values after the heuristic
\* pass are those before it.
C26_RecoveryInert ==
  pc = "scanned" =>
    LET begins     == astBuilder_FirstPass.begins
        orphanEnds == astBuilder_FirstPass.orphanEnds
    IN  /\ \A o \in 1..Len(orphanEnds) : \A b \in 1..Len(begins) :
             begins[b].endLine = 0 => orphanEnds[o] < begins[b].startLine
        /\ \A o \in 1..Len(orphanEnds) :
             astBuilder_candidates(astBuilder_Recovered.begins, orphanEnds[o]) = << >>
        /\ astBuilder_Recovered.orphanEnds = orphanEnds
        /\ astBuilder_Recovered.begins = begins

\* the heuristic pass ran: an orphan close, and a header left unclosed
C26_Witness ==
  /\ pc = "scanned"
  /\ Len(astBuilder_FirstPass.orphanEnds) > 0
  /\ \E b \in 1..Len(astBuilder_FirstPass.begins) : astBuilder_FirstPass.begins[b].endLine = 0

\* a line that starts with a brace, which a look-ahead may take as parameters
IsBraceStart(text) == CharAt(TrimStart(text), 0) \in {"{", "}"}

\* a document of header, close and content lines only: no comment and no
\* line a look-ahead could consume
PlainStructure(doc) == \A i \in 1..Len(doc) : ~IsBraceStart(doc[i]) /\ ~HasComment(doc[i])

\* header line of the parent of node n, 0 for the Document root
ParentLine(ast, n) == IF ast[n].parent = 0 THEN 0 ELSE ast[ast[n].parent].startLine

\* the (startLine, endLine) spans of the blocks of a tree
Spans(ast) == {<<ast[n].startLine, ast[n].endLine>> : n \in {k \in 1..Len(ast) : ast[k].type = "Block"}}

\* the lines that have a node, each with the header line of its parent
Attachments(ast) == {<<ast[n].startLine, ParentLine(ast, n)>> : n \in 1..Len(ast)}

\* C27: on documents of header, close and content lines without look-ahead
\* consumption, the two-pass builder gives every block and every content line
\* the parent the stack builder gives it (the block on top of the stack when
\* the line is scanned, or the root), and both builders yield the same spans.
C27_ContainmentRefinesStack ==
  (pc = "scanned" /\ PlainStructure(document)) =>
    /\ Spans(astBuilder_CurrentAst) = Spans(CurrentAst)
    /\ Attachments(astBuilder_CurrentAst) = Attachments(CurrentAst)
    /\ Len(astBuilder_CurrentAst) = Len(CurrentAst)

\* an unclosed block holding a closed block and a property after it
C27_Witness ==
  /\ pc = "scanned"
  /\ PlainStructure(document)
  /\ \E a, b, n \in 1..Len(astBuilder_CurrentAst) :
       /\ astBuilder_CurrentAst[a].type = "Block" /\ astBuilder_CurrentAst[a].endLine = 0
       /\ astBuilder_CurrentAst[b].type = "Block" /\ astBuilder_CurrentAst[b].parent = a
       /\ astBuilder_CurrentAst[b].endLine # 0
       /\ astBuilder_CurrentAst[n].type = "Property" /\ astBuilder_CurrentAst[n].parent = a
       /\ astBuilder_CurrentAst[n].startLine > astBuilder_CurrentAst[b].endLine

\* the nodes of the two-pass tree whose paramsRaw was taken from line l: a
\* block whose header look-ahead consumed the brace-only line, a property
\* whose look-ahead found it among the next non-empty lines
OwnersOf(l) ==
  {n \in 1..Len(astBuilder_CurrentAst) :
     LET node == astBuilder_CurrentAst[n] IN
     /\ node.paramsRaw = Trim(document[l])
     /\ node.startLine < l
     /\ \/ node.type = "Block" /\ l \in ConsumedByHeaders
        \/ /\ node.type = "Property"
           /\ astBuilder_trailingBrace(node.value \o node.paramsRaw) < 0
           /\ l = astBuilder_braceLine(document, tabWidth, node.indent, PropertyBraceWindow,
                                       node.startLine + 1, 0)}

\* C28: in the two-pass builder no brace-only line is attached as paramsRaw
\* to more than one node; a brace-only line after a header and a property is
\* not attached to both.
C28_OneOwner ==
  pc = "scanned" =>
    \A l \in 1..Len(document) :
      IsBraceOnly(Trim(document[l])) => Cardinality(OwnersOf(l)) <= 1

\* a header, a property and then a brace-only line
C28_Witness ==
  /\ pc = "scanned"
  /\ \E l \in 3..Len(document) :
       /\ IsBraceOnly(Trim(document[l]))
       /\ astBuilder_headerRegexTest(document[l - 2])
       /\ EqualIndex(tokenizeLine(document[l - 1], l - 1)) > 0

\* the array-order diagnostics of the earlier validator for the whole tree
astBuilder_ArrayDiagnostics ==
  LET RECURSIVE Collect(_)
      Collect(b) == IF b > Len(astBuilder_CurrentAst) THEN << >>
                    ELSE (IF astBuilder_CurrentAst[b].type = "Block"
                          THEN astBuilder_arrayOrder(astBuilder_CurrentAst, b) ELSE << >>)
                         \o Collect(b + 1)
  IN  Collect(1)

\* a key [n] with n a run of digits
IsNumericIndexKey(key) ==
  /\ Len(key) >= 3
  /\ key[1] = "[" /\ key[Len(key)] = "]"
  /\ \A k \in 2..(Len(key) - 1) : key[k] \in Digits

\* the sibling properties of block b with numeric index keys, in source order
NumericSiblings(b) ==
  SelectSeq(Children(astBuilder_CurrentAst, b),
            LAMBDA n : /\ astBuilder_CurrentAst[n].type = "Property"
                       /\ IsNumericIndexKey(astBuilder_CurrentAst[n].key))

IndexOfKey(key) == NumberValue(SubSeq(key, 2, Len(key) - 1))

\* C24: among the sibling properties of a block with numeric index keys, in
\* source order, every adjacent pair (a, b) with b < a gives an out-of-order
\* Warning on b's line and every adjacent pair with b > a + 1 gives a
\* non-sequential Warning on b's line that cites a + 1, whatever the pairs
\* before it.
C24_EveryPairChecked ==
  pc = "scanned" =>
    \A blk \in 1..Len(astBuilder_CurrentAst) :
      astBuilder_CurrentAst[blk].type = "Block" =>
        \A j \in 2..Len(NumericSiblings(blk)) :
          LET a    == IndexOfKey(astBuilder_CurrentAst[NumericSiblings(blk)[j - 1]].key)
              b    == IndexOfKey(astBuilder_CurrentAst[NumericSiblings(blk)[j]].key)
              line == astBuilder_CurrentAst[NumericSiblings(blk)[j]].startLine
          IN  /\ b < a =>
                   Count(astBuilder_ArrayDiagnostics,
                         LAMBDA d : d = Diag(line, 0, MsgOutOfOrder, Warning, << >>)) = 1
              /\ b > a + 1 =>
                   Count(astBuilder_ArrayDiagnostics,
                         LAMBDA d : d = Diag(line, 0, MsgNonSequential, Warning,
                                             <<ToString(a + 1), ToString(b)>>)) = 1

\* an out-of-order pair followed by a pair that skips an index
C24_Witness ==
  /\ pc = "scanned"
  /\ \E blk \in 1..Len(astBuilder_CurrentAst) :
       /\ astBuilder_CurrentAst[blk].type = "Block"
       /\ Len(NumericSiblings(blk)) = 3
       /\ LET k(j) == IndexOfKey(astBuilder_CurrentAst[NumericSiblings(blk)[j]].key)
          IN  k(2) < k(1) /\ k(3) > k(2) + 1

\* the timer callback has just run
TimerRan == runs' = runs + 1

\* what holds in every state of the host: one timer at most, armed for the
\* document of the last change event and due Debounce after it, and one run
\* at most since that event
DebounceState ==
  /\ Cardinality(timers) <= 1
  /\ \A t \in timers : t.path = lastEvent[1] /\ t.due = lastEvent[2] + Debounce
  /\ runs <= 1

\* what a run of the timer callback does: it runs Debounce after the last
\* change event, publishes the validation of that event's document under its
\* own path, leaves no timer behind and touches no other document's entry
DebounceRun ==
  TimerRan =>
    /\ clock = lastEvent[2] + Debounce
    /\ timers' = {}
    /\ published' = updateDiagnostics(published, lastEvent[1], contents[lastEvent[1]],
                                      tabWidth, indentLevel)
    /\ \A path \in DOMAIN published \ {lastEvent[1]} : published'[path] = published[path]
    /\ dirty' = dirty \ {lastEvent[1]}

====
